---------------------------- MODULE Spec2Model ----------------------------
(***************************************************************************)
(* Model of the merorr-backend catalog API: the Express route handlers for *)
(* products, variants, colors, styles, collections and brands, and the     *)
(* relational store they call through the ORM client.                      *)
(*                                                                         *)
(* Strings are sequences of one-character strings, so that trim,           *)
(* toUpperCase and parseInt are computed, not assumed.  A request body     *)
(* field is a JavaScript value: a record [t, s, n] where t is the type.    *)
(***************************************************************************)
EXTENDS Integers, Sequences, FiniteSets, TLC

VARIABLES
    colors,              \* Color table: id -> [name, hexCode]
    styles,              \* Style table: id -> [name, fitType]
    brands,              \* Brand table: id -> [name, logo]
    collections,         \* Collection table: id -> [name, description]
    products,            \* Product table: id -> [slug, sku, price, brandId]
    variants,            \* ProductVariant table: id -> [variantId, sku, stock, productId, colorId, styleId]
    productCollections,  \* join rows <<productId, collectionId>>
    variantCollections,  \* join rows <<variantId, collectionId>>
    nextId,              \* the next fresh row id (ids are never reused)
    req,                 \* the request handled last
    res                  \* the response sent to it

vars == <<colors, styles, brands, collections, products, variants,
          productCollections, variantCollections, nextId, req, res>>

tables == <<colors, styles, brands, collections, products, variants,
            productCollections, variantCollections, nextId>>

-----------------------------------------------------------------------------
(* Bounds of the model *)

MaxId == 7          \* row ids are 1..MaxId
MaxStock == 3       \* stocks of the initial variants are 0..MaxStock
MaxAmount == 5      \* stock amounts in a request are -1..MaxAmount
StockCap == 5       \* stock PATCHes are explored while stock <= StockCap
StockFloor == 2     \* ... and while stock >= -StockFloor
MaxNameRows == 3    \* rows created under SpecNames, SpecStyles and SpecBulk
MaxBatch == 2       \* entries of a bulk request
MaxPage == 3        \* pages asked of a list endpoint
MaxLimit == 2       \* page sizes asked of a list endpoint

Ids == 1..MaxId
NullId == 0         \* a null foreign key

-----------------------------------------------------------------------------
(* JavaScript values and the string functions the handlers call *)

JStr(s) == [s |-> s, t |-> "string", n |-> 0]
JNum(n) == [s |-> <<>>, t |-> "number", n |-> n]
Undefined == [s |-> <<>>, t |-> "undefined", n |-> 0]
JNull == [s |-> <<>>, t |-> "null", n |-> 0]

\* !v
Falsy(v) ==
    \/ v.t \in {"undefined", "null"}
    \/ v.t = "string" /\ v.s = <<>>
    \/ v.t = "number" /\ v.n = 0

IsSpace(c) == c \in {" ", "\t", "\n"}

RECURSIVE TrimStart(_)
TrimStart(s) ==
    IF s # <<>> /\ IsSpace(Head(s)) THEN TrimStart(Tail(s)) ELSE s

RECURSIVE TrimEnd(_)
TrimEnd(s) ==
    IF s # <<>> /\ IsSpace(s[Len(s)]) THEN TrimEnd(SubSeq(s, 1, Len(s) - 1)) ELSE s

\* String.prototype.trim
Trim(s) == TrimEnd(TrimStart(s))

LowerLetters == <<"a","b","c","d","e","f","g","h","i","j","k","l","m",
                  "n","o","p","q","r","s","t","u","v","w","x","y","z">>
UpperLetters == <<"A","B","C","D","E","F","G","H","I","J","K","L","M",
                  "N","O","P","Q","R","S","T","U","V","W","X","Y","Z">>

\* the upper-case letter of each lower-case letter
UpperOf ==
    [c \in {LowerLetters[i] : i \in 1..Len(LowerLetters)} |->
        UpperLetters[CHOOSE i \in 1..Len(LowerLetters) : LowerLetters[i] = c]]

UpperChar(c) == IF c \in DOMAIN UpperOf THEN UpperOf[c] ELSE c

\* String.prototype.toUpperCase
ToUpperCase(s) == [i \in 1..Len(s) |-> UpperChar(s[i])]

DigitChars == <<"0","1","2","3","4","5","6","7","8","9">>
IsDigit(c) == \E i \in 1..10 : DigitChars[i] = c
DigitValue(c) == (CHOOSE i \in 1..10 : DigitChars[i] = c) - 1

RECURSIVE NatToString(_)
NatToString(n) ==
    IF n < 10 THEN <<DigitChars[n + 1]>>
    ELSE NatToString(n \div 10) \o <<DigitChars[(n % 10) + 1]>>

\* String(n) for an integer n
IntToString(n) == IF n < 0 THEN <<"-">> \o NatToString(0 - n) ELSE NatToString(n)

\* the value of the longest prefix of digits of s, continuing from acc
RECURSIVE DigitsPrefix(_, _)
DigitsPrefix(s, acc) ==
    IF s # <<>> /\ IsDigit(Head(s))
    THEN DigitsPrefix(Tail(s), acc * 10 + DigitValue(Head(s)))
    ELSE acc

NaN == [n |-> 0, nan |-> TRUE]
Number(n) == [n |-> n, nan |-> FALSE]

\* parseInt on a string: leading white space, a sign, then digits; NaN without a digit
ParseIntString(s) ==
    LET t == TrimStart(s)
        neg == t # <<>> /\ Head(t) = "-"
        u == IF t # <<>> /\ Head(t) \in {"-", "+"} THEN Tail(t) ELSE t
    IN  IF u = <<>> \/ ~IsDigit(Head(u)) THEN NaN
        ELSE Number(IF neg THEN 0 - DigitsPrefix(u, 0) ELSE DigitsPrefix(u, 0))

\* parseInt(v): the argument is converted to a string first
ParseInt(v) ==
    CASE v.t = "string" -> ParseIntString(v.s)
      [] v.t = "number" -> ParseIntString(IntToString(v.n))
      [] OTHER -> NaN

-----------------------------------------------------------------------------
(* The store *)

Max(a, b) == IF a >= b THEN a ELSE b

\* a table without the row id
Without(table, id) == [i \in DOMAIN table \ {id} |-> table[i]]

\* a table with a new row
With(table, id, row) == [i \in DOMAIN table \cup {id} |-> IF i = id THEN row ELSE table[i]]

\* process.env.NODE_ENV
NodeEnvs == {"development", "production"}

\* what a response's message field holds under each NODE_ENV
sErrorMessage == "error.message"
sSomethingWentWrong == "Something went wrong."
NoMessage == [env \in NodeEnvs |-> "none"]
\* message: error.message, in the catch block of a route handler
CaughtMessage == [env \in NodeEnvs |-> sErrorMessage]

\* the response of a route handler: on a failure the body is { success: false,
\* error }, with message: error.message when the failure was caught (500)
Response(status, data) ==
    [status |-> status, data |-> data, success |-> status < 400,
     error |-> status >= 400,
     message |-> IF status = 500 THEN CaughtMessage ELSE NoMessage]
NoData == <<>>

-----------------------------------------------------------------------------
(* Strings used by the handlers and the requests *)

sAdd == <<"a","d","d">>
sSubtract == <<"s","u","b","t","r","a","c","t">>
sSet == <<"s","e","t">>
sIncrement == <<"i","n","c">>

-----------------------------------------------------------------------------
(* PATCH /variants/:id/stock *)

\* the switch on operation: the stock to store, from the stock read and the amount
NewStockSubtractUnfloored(operation, existingStock, amount) ==
    CASE operation = JStr(sAdd) -> existingStock + amount
      [] operation = JStr(sSubtract) -> existingStock - amount
      [] OTHER -> amount

NewStockAddAsSet(operation, existingStock, amount) ==
    CASE operation = JStr(sSubtract) -> Max(0, existingStock - amount)
      [] OTHER -> amount

NewStock(operation, existingStock, amount) ==
    CASE operation = JStr(sAdd) -> existingStock + amount
      [] operation = JStr(sSubtract) -> Max(0, existingStock - amount)
      [] OTHER -> amount

\* const { stock, operation = 'set' } = req.body
OperationOf(body) == IF body.operation = Undefined THEN JStr(sSet) ELSE body.operation

\* the same handler looking the variant up before it checks the input
PatchVariantStockLookupFirst(id, body) ==
    /\ req' = [id |-> id, body |-> body, route |-> "PATCH /variants/:id/stock"]
    /\ IF id \notin DOMAIN variants
       THEN /\ res' = Response(404, NoData)
            /\ UNCHANGED tables
       ELSE IF body.stock = Undefined
       THEN /\ res' = Response(400, NoData)
            /\ UNCHANGED tables
       ELSE LET newStock == NewStock(OperationOf(body), variants[id].stock,
                                     ParseInt(body.stock).n)
            IN  /\ newStock \in (0 - StockFloor)..StockCap
                /\ variants' = [variants EXCEPT ![id].stock = newStock]
                /\ res' = Response(200, variants'[id])
                /\ UNCHANGED <<colors, styles, brands, collections, products,
                               productCollections, variantCollections, nextId>>

PatchVariantStock(id, body) ==
    /\ req' = [id |-> id, body |-> body, route |-> "PATCH /variants/:id/stock"]
    /\ IF body.stock = Undefined
       THEN /\ res' = Response(400, NoData)
            /\ UNCHANGED tables
       ELSE IF id \notin DOMAIN variants
       THEN /\ res' = Response(404, NoData)
            /\ UNCHANGED tables
       ELSE LET newStock == NewStock(OperationOf(body), variants[id].stock,
                                     ParseInt(body.stock).n)
            IN  /\ newStock \in (0 - StockFloor)..StockCap
                /\ variants' = [variants EXCEPT ![id].stock = newStock]
                /\ res' = Response(200, variants'[id])
                /\ UNCHANGED <<colors, styles, brands, collections, products,
                               productCollections, variantCollections, nextId>>

\* the stock values a request carries: JSON integers, numeric strings, or none
StockValues ==
    {JNum(n) : n \in (0 - 1)..MaxAmount}
        \cup {JStr(<<" ", "3", "x">>), JStr(<<"-", "1">>), Undefined}

OperationValues == {JStr(sAdd), JStr(sSubtract), JStr(sSet), JStr(sIncrement), Undefined}

StockBodies == [operation : OperationValues, stock : StockValues]

\* the :id of a request names a variant, or a row that is no variant
PatchStockRequest ==
    \E id \in DOMAIN variants \cup DOMAIN products, body \in StockBodies :
        PatchVariantStock(id, body)

-----------------------------------------------------------------------------
(* Rows *)

sSku(i) == <<"S", DigitChars[i + 1]>>
sVariantId(i) == <<"V", DigitChars[i + 1]>>

ProductRow(slug, sku, price, brandId) ==
    [slug |-> slug, sku |-> sku, price |-> price, brandId |-> brandId]

VariantRow(variantId, sku, stock, productId, colorId, styleId) ==
    [stock |-> stock, sku |-> sku, variantId |-> variantId, productId |-> productId,
     colorId |-> colorId, styleId |-> styleId]

NoRows == [i \in {} |-> <<>>]
NoRequest == [route |-> "none"]

-----------------------------------------------------------------------------
(* Stock specification: one product with two variants, stock PATCH requests *)

InitStock ==
    /\ colors = NoRows /\ styles = NoRows /\ brands = NoRows /\ collections = NoRows
    /\ products = With(NoRows, 1, ProductRow(<<"p">>, sSku(1), 10, NullId))
    /\ \E s2 \in 0..MaxStock, s3 \in 0..MaxStock :
          variants = With(With(NoRows, 2, VariantRow(sVariantId(2), sSku(2), s2, 1, NullId, NullId)),
                          3, VariantRow(sVariantId(3), sSku(3), s3, 1, NullId, NullId))
    /\ productCollections = {} /\ variantCollections = {}
    /\ nextId = 4
    /\ req = NoRequest
    /\ res = Response(0, NoData)

NextStock == PatchStockRequest

SpecStock == InitStock /\ [][NextStock]_vars

-----------------------------------------------------------------------------
(* Properties of PATCH /variants/:id/stock, checked under SpecStock *)

StockRoute == "PATCH /variants/:id/stock"

\* the step handled a stock PATCH carrying a JSON integer for an existing variant
StockStep ==
    /\ req'.route = StockRoute
    /\ req'.id \in DOMAIN variants
    /\ req'.body.stock.t = "number"

\* C1: a subtract of n on an existing variant with stock s stores max(0, s - n),
\* which is never below zero, whatever the magnitude of n.
C1_SubtractFloorsAtZero ==
    [][(StockStep /\ req'.body.operation = JStr(sSubtract)) =>
          /\ res'.status = 200
          /\ variants'[req'.id].stock =
                Max(0, variants[req'.id].stock - req'.body.stock.n)
          /\ variants'[req'.id].stock >= 0
          /\ res'.data.stock = variants'[req'.id].stock]_vars

\* a subtract of 5 was answered with success and left the variant at stock 0
C1_Witness ==
    /\ req.route = StockRoute
    /\ req.body.operation = JStr(sSubtract)
    /\ req.body.stock = JNum(5)
    /\ res.status = 200
    /\ variants[req.id].stock = 0

\* C2: add stores exactly s + n; set, no operation and an unrecognised operation
\* store exactly n; no other variant changes.
C2_AddAndSetExact ==
    [][StockStep =>
          LET id == req'.id
              n == req'.body.stock.n
              op == req'.body.operation
          IN  /\ op = JStr(sAdd) => variants'[id].stock = variants[id].stock + n
              /\ op \in {JStr(sSet), JStr(sIncrement), Undefined} => variants'[id].stock = n
              /\ DOMAIN variants' = DOMAIN variants
              /\ \A v \in DOMAIN variants \ {id} : variants'[v] = variants[v]]_vars

\* an add of 2 was answered with success and left the variant at stock 5, the
\* other variant being in stock
C2_Witness ==
    /\ req.route = StockRoute
    /\ req.body.operation = JStr(sAdd)
    /\ req.body.stock = JNum(2)
    /\ res.status = 200
    /\ variants[req.id].stock = 5
    /\ \E v \in DOMAIN variants \ {req.id} : variants[v].stock > 0

\* C11: a stock PATCH without a stock responds 400, whether or not the variant
\* exists (the input check precedes the lookup); one with a stock for a variant
\* that does not exist responds 404; in both cases no variant's stock changes.
C11_StockInputAndLookup ==
    [][req'.route = StockRoute
       => /\ req'.body.stock = Undefined
             => res'.status = 400 /\ ~res'.success /\ variants' = variants
          /\ req'.body.stock # Undefined /\ req'.id \notin DOMAIN variants
             => res'.status = 404 /\ ~res'.success /\ variants' = variants]_vars

\* a PATCH without a stock on an id that names no variant was answered 400, after
\* a stock has been changed by an earlier PATCH
C11_Witness ==
    /\ req.route = StockRoute
    /\ req.body.stock = Undefined
    /\ req.id \notin DOMAIN variants
    /\ res.status = 400
    /\ \E v \in DOMAIN variants : variants[v].stock = StockCap

-----------------------------------------------------------------------------
(* Foreign keys in a request body, and the reference counts of the guards *)

AbsentId == -1      \* the field is not in the body (undefined)

\* collectionIds of a body: given or not, and the ids in the order given
NoCollectionIds == [given |-> FALSE, ids |-> <<>>]
CollectionIds(ids) == [given |-> TRUE, ids |-> ids]

Range(seq) == {seq[i] : i \in 1..Len(seq)}

\* _count.variants of a color, of a style
ColorVariants(id) == {v \in DOMAIN variants : variants[v].colorId = id}
StyleVariants(id) == {v \in DOMAIN variants : variants[v].styleId = id}
\* _count.products of a brand
BrandProducts(id) == {p \in DOMAIN products : products[p].brandId = id}
\* _count.products and _count.variants of a collection
CollectionProducts(id) == {r \in productCollections : r[2] = id}
CollectionVariants(id) == {r \in variantCollections : r[2] = id}

-----------------------------------------------------------------------------
(* DELETE /colors/:id, /styles/:id, /brands/:id, /collections/:id *)

ColorGuardOff(id) == FALSE
ColorGuard(id) == Cardinality(ColorVariants(id)) > 0

DeleteColor(id) ==
    /\ req' = [id |-> id, route |-> "DELETE /colors/:id"]
    /\ IF id \notin DOMAIN colors
       THEN res' = Response(404, NoData) /\ UNCHANGED tables
       ELSE IF ColorGuard(id)
       THEN res' = Response(400, NoData) /\ UNCHANGED tables
       ELSE /\ colors' = Without(colors, id)
            /\ res' = Response(200, NoData)
            /\ UNCHANGED <<styles, brands, collections, products, variants,
                           productCollections, variantCollections, nextId>>

StyleGuard(id) == Cardinality(StyleVariants(id)) > 0

DeleteStyle(id) ==
    /\ req' = [id |-> id, route |-> "DELETE /styles/:id"]
    /\ IF id \notin DOMAIN styles
       THEN res' = Response(404, NoData) /\ UNCHANGED tables
       ELSE IF StyleGuard(id)
       THEN res' = Response(400, NoData) /\ UNCHANGED tables
       ELSE /\ styles' = Without(styles, id)
            /\ res' = Response(200, NoData)
            /\ UNCHANGED <<colors, brands, collections, products, variants,
                           productCollections, variantCollections, nextId>>

BrandGuard(id) == Cardinality(BrandProducts(id)) > 0

DeleteBrand(id) ==
    /\ req' = [id |-> id, route |-> "DELETE /brands/:id"]
    /\ IF id \notin DOMAIN brands
       THEN res' = Response(404, NoData) /\ UNCHANGED tables
       ELSE IF BrandGuard(id)
       THEN res' = Response(400, NoData) /\ UNCHANGED tables
       ELSE /\ brands' = Without(brands, id)
            /\ res' = Response(200, NoData)
            /\ UNCHANGED <<colors, styles, collections, products, variants,
                           productCollections, variantCollections, nextId>>

CollectionGuardProductsOnly(id) == Cardinality(CollectionProducts(id)) > 0
CollectionGuard(id) ==
    Cardinality(CollectionProducts(id)) > 0 \/ Cardinality(CollectionVariants(id)) > 0

DeleteCollection(id) ==
    /\ req' = [id |-> id, route |-> "DELETE /collections/:id"]
    /\ IF id \notin DOMAIN collections
       THEN res' = Response(404, NoData) /\ UNCHANGED tables
       ELSE IF CollectionGuard(id)
       THEN res' = Response(400, NoData) /\ UNCHANGED tables
       ELSE /\ collections' = Without(collections, id)
            /\ res' = Response(200, NoData)
            /\ UNCHANGED <<colors, styles, brands, products, variants,
                           productCollections, variantCollections, nextId>>

-----------------------------------------------------------------------------
(* DELETE /variants/:id, DELETE /products/:id                               *)
(* Neither handler checks for dependent rows.  What the store does with the *)
(* join rows of a deleted variant, and with the variants and join rows of a *)
(* deleted product, is set by the relations' onDelete rule: the delete      *)
(* either cascades to them, or is refused by the store and the handler      *)
(* answers 500.  Both outcomes are kept.                                    *)

VariantJoinRows(id) == {r \in variantCollections : r[1] = id}
ProductJoinRows(id) == {r \in productCollections : r[1] = id}
ProductVariants(id) == {v \in DOMAIN variants : variants[v].productId = id}

DeleteVariant(id) ==
    /\ req' = [id |-> id, route |-> "DELETE /variants/:id"]
    /\ IF id \notin DOMAIN variants
       THEN res' = Response(404, NoData) /\ UNCHANGED tables
       ELSE \/ /\ variants' = Without(variants, id)
               /\ variantCollections' = variantCollections \ VariantJoinRows(id)
               /\ res' = Response(200, NoData)
               /\ UNCHANGED <<colors, styles, brands, collections, products,
                              productCollections, nextId>>
            \/ /\ VariantJoinRows(id) # {}
               /\ res' = Response(500, NoData)
               /\ UNCHANGED tables

DeleteProduct(id) ==
    /\ req' = [id |-> id, route |-> "DELETE /products/:id"]
    /\ IF id \notin DOMAIN products
       THEN res' = Response(404, NoData) /\ UNCHANGED tables
       ELSE \/ /\ products' = Without(products, id)
               /\ productCollections' = productCollections \ ProductJoinRows(id)
               /\ variants' = [v \in DOMAIN variants \ ProductVariants(id) |-> variants[v]]
               /\ variantCollections' =
                     {r \in variantCollections : r[1] \notin ProductVariants(id)}
               /\ res' = Response(200, NoData)
               /\ UNCHANGED <<colors, styles, brands, collections, nextId>>
            \/ /\ ProductJoinRows(id) # {} \/ ProductVariants(id) # {}
               /\ res' = Response(500, NoData)
               /\ UNCHANGED tables

-----------------------------------------------------------------------------
(* The store's constraints *)

\* P2002 on ProductVariant: another row holds this variantId or this sku
VariantUniqueViolation(id, variantId, sku) ==
    \E v \in DOMAIN variants \ {id} :
        variants[v].variantId = variantId \/ variants[v].sku = sku

\* P2002 on Product: another row holds this slug or this sku
ProductUniqueViolation(id, slug, sku) ==
    \E p \in DOMAIN products \ {id} :
        products[p].slug = slug \/ products[p].sku = sku

\* a foreign key that is set names a row of the table
ForeignKeyViolation(fk, table) == fk \notin {AbsentId, NullId} /\ fk \notin DOMAIN table

\* the join rows of one parent for a list of collection ids
JoinRows(parent, ids) == {<<parent, ids[i]>> : i \in 1..Len(ids)}

-----------------------------------------------------------------------------
(* PUT /variants/:id.  The bodies of the model carry variantId, sku,        *)
(* colorId, styleId and collectionIds; every field but collectionIds goes   *)
(* to the update as it is.                                                  *)

\* deleteMany of the parent's join rows, then createMany of the new ones
ReplaceJoinRowsMerging(rows, parent, ids) == rows \cup JoinRows(parent, ids)
ReplaceJoinRows(rows, parent, ids) ==
    {r \in rows : r[1] # parent} \cup JoinRows(parent, ids)

PutVariant(id, body) ==
    /\ req' = [id |-> id, body |-> body, route |-> "PUT /variants/:id"]
    /\ IF id \notin DOMAIN variants
       THEN res' = Response(404, NoData) /\ UNCHANGED tables
       ELSE LET existing == variants[id]
                updated == [existing EXCEPT
                              !.variantId = IF body.variantId = Undefined THEN @
                                            ELSE body.variantId.s,
                              !.sku = IF body.sku = Undefined THEN @ ELSE body.sku.s,
                              !.colorId = IF body.colorId = AbsentId THEN @ ELSE body.colorId,
                              !.styleId = IF body.styleId = AbsentId THEN @ ELSE body.styleId]
                ids == body.collectionIds.ids
            IN  IF VariantUniqueViolation(id, updated.variantId, updated.sku)
                THEN res' = Response(400, NoData) /\ UNCHANGED tables
                ELSE IF \/ ForeignKeyViolation(body.colorId, colors)
                        \/ ForeignKeyViolation(body.styleId, styles)
                THEN res' = Response(500, NoData) /\ UNCHANGED tables
                ELSE /\ variants' = [variants EXCEPT ![id] = updated]
                     /\ UNCHANGED <<colors, styles, brands, collections, products,
                                    productCollections, nextId>>
                     /\ IF ~body.collectionIds.given
                        THEN /\ UNCHANGED variantCollections
                             /\ res' = Response(200, updated)
                        ELSE IF \E c \in Range(ids) : c \notin DOMAIN collections
                        THEN \* createMany throws after deleteMany has run
                             /\ variantCollections' = ReplaceJoinRows(variantCollections, id, <<>>)
                             /\ res' = Response(500, NoData)
                        ELSE /\ variantCollections' = ReplaceJoinRows(variantCollections, id, ids)
                             /\ res' = Response(200, updated)

-----------------------------------------------------------------------------
(* PUT /products/:id.  The bodies of the model carry slug, sku, brandId and *)
(* collectionIds; none carries a price, so the price formatting is not      *)
(* entered.  Every field but collectionIds goes to the update as it is: a   *)
(* body may carry brand, the relation of the product to its brand, with a   *)
(* nested update of that brand's name.                                      *)

\* data.brand of the update: absent, or { update: { name } }
NestedBrand(body) == IF "brand" \in DOMAIN body THEN body.brand ELSE Undefined

\* the nested update finds no brand to update: the product has none
NestedBrandMissing(body, brandId) == NestedBrand(body) # Undefined /\ brandId = NullId

\* P2002 on the nested update: another brand holds the name
NestedBrandTaken(body, brandId) ==
    /\ NestedBrand(body) # Undefined
    /\ \E b \in DOMAIN brands \ {brandId} : brands[b].name = NestedBrand(body).update.name

\* the brands after the update: the nested update is part of it
BrandsAfterUpdate(body, brandId) ==
    IF NestedBrand(body) = Undefined THEN brands
    ELSE [brands EXCEPT ![brandId].name = NestedBrand(body).update.name]

PutProduct(id, body) ==
    /\ req' = [id |-> id, body |-> body, route |-> "PUT /products/:id"]
    /\ IF id \notin DOMAIN products
       THEN res' = Response(404, NoData) /\ UNCHANGED tables
       ELSE LET existing == products[id]
                updated == [existing EXCEPT
                              !.slug = IF body.slug = Undefined THEN @ ELSE body.slug.s,
                              !.sku = IF body.sku = Undefined THEN @ ELSE body.sku.s,
                              !.brandId = IF body.brandId = AbsentId THEN @ ELSE body.brandId]
                ids == body.collectionIds.ids
            IN  IF ProductUniqueViolation(id, updated.slug, updated.sku)
                THEN res' = Response(400, NoData) /\ UNCHANGED tables
                ELSE IF ForeignKeyViolation(body.brandId, brands)
                THEN res' = Response(500, NoData) /\ UNCHANGED tables
                ELSE IF NestedBrandMissing(body, updated.brandId)
                THEN res' = Response(500, NoData) /\ UNCHANGED tables
                ELSE IF NestedBrandTaken(body, updated.brandId)
                THEN res' = Response(400, NoData) /\ UNCHANGED tables
                ELSE /\ products' = [products EXCEPT ![id] = updated]
                     /\ brands' = BrandsAfterUpdate(body, updated.brandId)
                     /\ UNCHANGED <<colors, styles, collections, variants,
                                    variantCollections, nextId>>
                     /\ IF ~body.collectionIds.given
                        THEN /\ UNCHANGED productCollections
                             /\ res' = Response(200, updated)
                        ELSE IF \E c \in Range(ids) : c \notin DOMAIN collections
                        THEN \* createMany throws after deleteMany has run
                             /\ productCollections' = ReplaceJoinRows(productCollections, id, <<>>)
                             /\ res' = Response(500, NoData)
                        ELSE /\ productCollections' = ReplaceJoinRows(productCollections, id, ids)
                             /\ res' = Response(200, updated)

-----------------------------------------------------------------------------
(* POST /variants *)

\* the same handler without the findUnique on the product
PostVariantWithoutLookup(body) ==
    /\ req' = [body |-> body, route |-> "POST /variants"]
    /\ IF \/ Falsy(body.variantId) \/ Falsy(body.sku) \/ Falsy(body.fullVariantName)
          \/ Falsy(body.variantName) \/ body.productId \in {AbsentId, NullId}
       THEN res' = Response(400, NoData) /\ UNCHANGED tables
       ELSE LET stock == IF body.stock = Undefined THEN JNum(0) ELSE body.stock
                ids == IF body.collectionIds.given THEN body.collectionIds.ids ELSE <<>>
                row == VariantRow(Trim(body.variantId.s), Trim(body.sku.s),
                                  ParseInt(stock).n, body.productId,
                                  IF body.colorId \in {AbsentId, NullId} THEN NullId ELSE body.colorId,
                                  IF body.styleId \in {AbsentId, NullId} THEN NullId ELSE body.styleId)
            IN  IF VariantUniqueViolation(nextId, row.variantId, row.sku)
                THEN res' = Response(400, NoData) /\ UNCHANGED tables
                ELSE IF \/ ForeignKeyViolation(body.colorId, colors)
                        \/ ForeignKeyViolation(body.styleId, styles)
                        \/ \E c \in Range(ids) : c \notin DOMAIN collections
                THEN res' = Response(500, NoData) /\ UNCHANGED tables
                ELSE /\ nextId <= MaxId
                     /\ variants' = With(variants, nextId, row)
                     /\ variantCollections' = variantCollections \cup JoinRows(nextId, ids)
                     /\ nextId' = nextId + 1
                     /\ res' = Response(201, row)
                     /\ UNCHANGED <<colors, styles, brands, collections, products,
                                    productCollections>>

PostVariant(body) ==
    /\ req' = [body |-> body, route |-> "POST /variants"]
    /\ IF \/ Falsy(body.variantId) \/ Falsy(body.sku) \/ Falsy(body.fullVariantName)
          \/ Falsy(body.variantName) \/ body.productId \in {AbsentId, NullId}
       THEN res' = Response(400, NoData) /\ UNCHANGED tables
       ELSE IF body.productId \notin DOMAIN products
       THEN res' = Response(404, NoData) /\ UNCHANGED tables
       ELSE LET stock == IF body.stock = Undefined THEN JNum(0) ELSE body.stock
                ids == IF body.collectionIds.given THEN body.collectionIds.ids ELSE <<>>
                row == VariantRow(Trim(body.variantId.s), Trim(body.sku.s),
                                  ParseInt(stock).n, body.productId,
                                  IF body.colorId \in {AbsentId, NullId} THEN NullId ELSE body.colorId,
                                  IF body.styleId \in {AbsentId, NullId} THEN NullId ELSE body.styleId)
            IN  IF VariantUniqueViolation(nextId, row.variantId, row.sku)
                THEN res' = Response(400, NoData) /\ UNCHANGED tables
                ELSE IF \/ ForeignKeyViolation(body.colorId, colors)
                        \/ ForeignKeyViolation(body.styleId, styles)
                        \/ \E c \in Range(ids) : c \notin DOMAIN collections
                THEN res' = Response(500, NoData) /\ UNCHANGED tables
                ELSE /\ nextId <= MaxId
                     /\ variants' = With(variants, nextId, row)
                     /\ variantCollections' = variantCollections \cup JoinRows(nextId, ids)
                     /\ nextId' = nextId + 1
                     /\ res' = Response(201, row)
                     /\ UNCHANGED <<colors, styles, brands, collections, products,
                                    productCollections>>

-----------------------------------------------------------------------------
(* Rows of the name tables *)

sTeal == <<"T","e","a","l">>
sRed == <<"R","e","d">>
sDenim == <<"D","e","n","i","m">>
sSale == <<"S","a","l","e">>
sAcme == <<"A","c","m","e">>
sSKINNY == <<"S","K","I","N","N","Y">>
sRELAXED == <<"R","E","L","A","X","E","D">>
sOVERSIZED == <<"O","V","E","R","S","I","Z","E","D">>
sCLASSIC == <<"C","L","A","S","S","I","C">>

ColorRow(name, hexCode) == [name |-> name, hexCode |-> hexCode]
StyleRow(name, fitType) == [name |-> name, fitType |-> fitType]
BrandRow(name, logo) == [name |-> name, logo |-> logo]
CollectionRow(name, description) == [name |-> name, description |-> description]

-----------------------------------------------------------------------------
(* Guard specification: a color, a style, a brand, a collection, a product  *)
(* and a variant of it, nothing referenced yet.  Variants are created,      *)
(* products and variants are updated, and every entity is deleted.          *)

GuardColors == {1}
GuardStyles == {2}
GuardBrands == {3}
GuardCollections == {4}
GuardProducts == {5}
GuardVariants == {i \in Ids : i >= 6 /\ i < nextId}

InitGuard ==
    /\ colors = With(NoRows, 1, ColorRow(sTeal, JNull))
    /\ styles = With(NoRows, 2, StyleRow(sDenim, sSKINNY))
    /\ brands = With(NoRows, 3, BrandRow(sAcme, Undefined))
    /\ collections = With(NoRows, 4, CollectionRow(sSale, Undefined))
    /\ products = With(NoRows, 5, ProductRow(<<"p">>, sSku(5), 10, NullId))
    /\ variants = With(NoRows, 6, VariantRow(sVariantId(6), sSku(6), 0, 5, NullId, NullId))
    /\ productCollections = {} /\ variantCollections = {}
    /\ nextId = 7
    /\ req = NoRequest
    /\ res = Response(0, NoData)

\* bodies that set one reference, or none
GuardVariantBodies ==
    [sku : {Undefined}, variantId : {Undefined},
     colorId : {AbsentId, NullId} \cup GuardColors,
     styleId : {AbsentId}, collectionIds : {NoCollectionIds}]
    \cup [sku : {Undefined}, variantId : {Undefined}, colorId : {AbsentId},
          styleId : {NullId} \cup GuardStyles, collectionIds : {NoCollectionIds}]
    \cup [sku : {Undefined}, variantId : {Undefined}, colorId : {AbsentId},
          styleId : {AbsentId},
          collectionIds : {CollectionIds(<<>>)} \cup {CollectionIds(<<c>>) : c \in GuardCollections}]

GuardProductBodies ==
    [slug : {Undefined}, sku : {Undefined}, brandId : {AbsentId, NullId} \cup GuardBrands,
     collectionIds : {NoCollectionIds}]
    \cup [slug : {Undefined}, sku : {Undefined}, brandId : {AbsentId},
          collectionIds : {CollectionIds(<<>>)} \cup {CollectionIds(<<c>>) : c \in GuardCollections}]

\* a new variant of the product, with one reference or none
GuardNewVariant(colorId, styleId, collectionIds) ==
    [stock |-> Undefined, sku |-> JStr(sSku(nextId)),
     variantId |-> JStr(sVariantId(nextId)), productId |-> 5,
     colorId |-> colorId, styleId |-> styleId,
     collectionIds |-> collectionIds, fullVariantName |-> JStr(<<"f">>), variantName |-> JStr(<<"v">>)]

GuardNewVariantBodies ==
    {GuardNewVariant(c, AbsentId, NoCollectionIds) : c \in {AbsentId} \cup GuardColors}
    \cup {GuardNewVariant(AbsentId, s, NoCollectionIds) : s \in GuardStyles}
    \cup {GuardNewVariant(AbsentId, AbsentId, CollectionIds(<<c>>)) : c \in GuardCollections}

DeleteColorRequest == \E id \in GuardColors : DeleteColor(id)
DeleteStyleRequest == \E id \in GuardStyles : DeleteStyle(id)
DeleteBrandRequest == \E id \in GuardBrands : DeleteBrand(id)
DeleteCollectionRequest == \E id \in GuardCollections : DeleteCollection(id)
DeleteVariantRequest == \E id \in GuardVariants : DeleteVariant(id)
DeleteProductRequest == \E id \in GuardProducts : DeleteProduct(id)
PutVariantGuardRequest == \E id \in GuardVariants, body \in GuardVariantBodies : PutVariant(id, body)
PutProductGuardRequest == \E id \in GuardProducts, body \in GuardProductBodies : PutProduct(id, body)
PostVariantGuardRequest == \E body \in GuardNewVariantBodies : PostVariant(body)

NextGuard ==
    \/ DeleteColorRequest
    \/ DeleteStyleRequest
    \/ DeleteBrandRequest
    \/ DeleteCollectionRequest
    \/ DeleteVariantRequest
    \/ DeleteProductRequest
    \/ PutVariantGuardRequest
    \/ PutProductGuardRequest
    \/ PostVariantGuardRequest

SpecGuard == InitGuard /\ [][NextGuard]_vars

-----------------------------------------------------------------------------
(* Properties of the delete guards, checked under SpecGuard (requests run   *)
(* one at a time)                                                           *)

\* the step handled a DELETE on route for a row that is in table
DeleteStep(route, table) == req'.route = route /\ req'.id \in DOMAIN table

\* the DELETE was refused with 400 and the table still holds the row
Refused(table, tableAfter) ==
    /\ res'.status = 400
    /\ tableAfter = table

\* the DELETE was answered with success and the row is gone
Deleted(table, tableAfter) ==
    /\ res'.status = 200
    /\ res'.success
    /\ DOMAIN tableAfter = DOMAIN table \ {req'.id}

\* C3: a DELETE of a referenced Color, Style, Brand or Collection responds 400 and
\* keeps the row; a DELETE of an unreferenced one responds success and removes it.
C3_DeleteGuards ==
    [][/\ DeleteStep("DELETE /colors/:id", colors) =>
             IF ColorVariants(req'.id) # {}
             THEN Refused(colors, colors') ELSE Deleted(colors, colors')
       /\ DeleteStep("DELETE /styles/:id", styles) =>
             IF StyleVariants(req'.id) # {}
             THEN Refused(styles, styles') ELSE Deleted(styles, styles')
       /\ DeleteStep("DELETE /brands/:id", brands) =>
             IF BrandProducts(req'.id) # {}
             THEN Refused(brands, brands') ELSE Deleted(brands, brands')
       /\ DeleteStep("DELETE /collections/:id", collections) =>
             IF CollectionProducts(req'.id) # {} \/ CollectionVariants(req'.id) # {}
             THEN Refused(collections, collections')
             ELSE Deleted(collections, collections')]_vars

\* a collection referenced by a variant join row only was not deleted, while the
\* unreferenced color has been deleted and both variants remain
C3_Witness ==
    /\ req.route = "DELETE /collections/:id"
    /\ res.status = 400
    /\ req.id \in DOMAIN collections
    /\ CollectionProducts(req.id) = {}
    /\ CollectionVariants(req.id) # {}
    /\ colors = NoRows
    /\ Cardinality(DOMAIN variants) = 2

-----------------------------------------------------------------------------
(* Join specification: two collections, two products and two variants; the  *)
(* products and the variants are updated with and without collectionIds.    *)

JoinCollections == {1, 2}
JoinProducts == {3, 4}
JoinVariants == {5, 6}

InitJoin ==
    /\ colors = NoRows /\ styles = NoRows /\ brands = NoRows
    /\ collections = With(With(NoRows, 1, CollectionRow(sSale, Undefined)),
                          2, CollectionRow(sDenim, Undefined))
    /\ products = With(With(NoRows, 3, ProductRow(<<"p">>, sSku(3), 10, NullId)),
                       4, ProductRow(<<"q">>, sSku(4), 10, NullId))
    /\ variants = With(With(NoRows, 5, VariantRow(sVariantId(5), sSku(5), 0, 3, NullId, NullId)),
                       6, VariantRow(sVariantId(6), sSku(6), 0, 3, NullId, NullId))
    /\ productCollections = {} /\ variantCollections = {}
    /\ nextId = 7
    /\ req = NoRequest
    /\ res = Response(0, NoData)

\* collectionIds of the requests: none, lists of collections, and lists that
\* name a row that is no collection (3)
JoinCollectionIds ==
    {NoCollectionIds} \cup
    {CollectionIds(ids) : ids \in {<<>>, <<1>>, <<2>>, <<1, 2>>, <<2, 1>>, <<3>>, <<1, 3>>}}

\* the slug and the sku are left alone or set to those of product 4 and variant 6
JoinProductBodies ==
    [slug : {Undefined, JStr(<<"q">>)}, sku : {Undefined}, brandId : {AbsentId},
     collectionIds : JoinCollectionIds]

JoinVariantBodies ==
    [sku : {Undefined, JStr(sSku(6))}, variantId : {Undefined}, colorId : {AbsentId},
     styleId : {AbsentId}, collectionIds : JoinCollectionIds]

PutProductJoinRequest == \E id \in JoinProducts, body \in JoinProductBodies : PutProduct(id, body)
PutVariantJoinRequest == \E id \in JoinVariants, body \in JoinVariantBodies : PutVariant(id, body)

NextJoin == PutProductJoinRequest \/ PutVariantJoinRequest

SpecJoin == InitJoin /\ [][NextJoin]_vars

\* the step answered a PUT on route with success, for a body whose collectionIds
\* are distinct ids of existing collections
ReplaceStep(route) ==
    /\ req'.route = route
    /\ res'.status = 200
    /\ req'.body.collectionIds.given
    /\ Range(req'.body.collectionIds.ids) \subseteq DOMAIN collections
    /\ Cardinality(Range(req'.body.collectionIds.ids)) = Len(req'.body.collectionIds.ids)

\* the parent's join rows are exactly the ids supplied, the others' are unchanged
Replaced(rows, rowsAfter) ==
    /\ {r[2] : r \in {x \in rowsAfter : x[1] = req'.id}} = Range(req'.body.collectionIds.ids)
    /\ {r \in rowsAfter : r[1] # req'.id} = {r \in rows : r[1] # req'.id}

\* C4: a successful PUT on a Product or a Variant with collectionIds = S leaves the
\* parent's join rows equal to exactly S (none for S = []), whatever they were, and
\* leaves the join rows of every other parent unchanged.
C4_CollectionIdsReplace ==
    [][/\ ReplaceStep("PUT /products/:id") =>
             /\ Replaced(productCollections, productCollections')
             /\ variantCollections' = variantCollections
       /\ ReplaceStep("PUT /variants/:id") =>
             /\ Replaced(variantCollections, variantCollections')
             /\ productCollections' = productCollections]_vars

\* a PUT with collectionIds = [] left a product without join rows while the other
\* product keeps its two and a variant keeps its own
C4_Witness ==
    /\ req.route = "PUT /products/:id"
    /\ res.status = 200
    /\ req.body.collectionIds = CollectionIds(<<>>)
    /\ ProductJoinRows(req.id) = {}
    /\ \E p \in DOMAIN products \ {req.id} : Cardinality(ProductJoinRows(p)) = 2
    /\ variantCollections # {}

-----------------------------------------------------------------------------
(* POST /colors, /styles, /brands, /collections *)

\* P2002 on a name table: a row holds this name
NameTaken(table, name) == \E r \in DOMAIN table : table[r].name = name

\* x.trim() throws a TypeError when x is neither a string nor, behind ?., absent
TrimThrows(v) == v.t = "number"

\* x?.trim()
OptionalTrim(v) == IF v.t = "string" THEN JStr(Trim(v.s)) ELSE Undefined

\* x?.trim() || null
OptionalTrimOrNull(v) == IF Falsy(OptionalTrim(v)) THEN JNull ELSE OptionalTrim(v)

\* a column given undefined is stored as null
Stored(v) == IF v = Undefined THEN JNull ELSE v

validFitTypes == {sSKINNY, sRELAXED, sOVERSIZED, sCLASSIC}

ColorCreateDataUntrimmed(body) == ColorRow(body.name.s, OptionalTrimOrNull(body.hexCode))
ColorCreateData(body) == ColorRow(Trim(body.name.s), OptionalTrimOrNull(body.hexCode))

PostColor(body) ==
    /\ req' = [body |-> body, route |-> "POST /colors"]
    /\ IF Falsy(body.name)
       THEN res' = Response(400, NoData) /\ UNCHANGED tables
       ELSE IF TrimThrows(body.name) \/ TrimThrows(body.hexCode)
       THEN res' = Response(500, NoData) /\ UNCHANGED tables
       ELSE IF NameTaken(colors, ColorCreateData(body).name)
       THEN res' = Response(400, NoData) /\ UNCHANGED tables
       ELSE /\ nextId <= MaxNameRows
            /\ colors' = With(colors, nextId, ColorCreateData(body))
            /\ nextId' = nextId + 1
            /\ res' = Response(201, ColorCreateData(body))
            /\ UNCHANGED <<styles, brands, collections, products, variants,
                           productCollections, variantCollections>>

StyleCreateData(body) == StyleRow(Trim(body.name.s), ToUpperCase(body.fitType.s))

PostStyle(body) ==
    /\ req' = [body |-> body, route |-> "POST /styles"]
    /\ IF Falsy(body.name) \/ Falsy(body.fitType)
       THEN res' = Response(400, NoData) /\ UNCHANGED tables
       ELSE IF body.fitType.t # "string"
       THEN \* fitType.toUpperCase is not a function
            res' = Response(500, NoData) /\ UNCHANGED tables
       ELSE IF ToUpperCase(body.fitType.s) \notin validFitTypes
       THEN res' = Response(400, NoData) /\ UNCHANGED tables
       ELSE IF TrimThrows(body.name)
       THEN res' = Response(500, NoData) /\ UNCHANGED tables
       ELSE IF NameTaken(styles, StyleCreateData(body).name)
       THEN res' = Response(400, NoData) /\ UNCHANGED tables
       ELSE /\ nextId <= MaxNameRows
            /\ styles' = With(styles, nextId, StyleCreateData(body))
            /\ nextId' = nextId + 1
            /\ res' = Response(201, StyleCreateData(body))
            /\ UNCHANGED <<colors, brands, collections, products, variants,
                           productCollections, variantCollections>>

BrandCreateData(body) == BrandRow(Trim(body.name.s), Stored(OptionalTrim(body.logo)))

PostBrand(body) ==
    /\ req' = [body |-> body, route |-> "POST /brands"]
    /\ IF Falsy(body.name)
       THEN res' = Response(400, NoData) /\ UNCHANGED tables
       ELSE IF TrimThrows(body.name) \/ TrimThrows(body.logo)
       THEN res' = Response(500, NoData) /\ UNCHANGED tables
       ELSE IF NameTaken(brands, BrandCreateData(body).name)
       THEN res' = Response(400, NoData) /\ UNCHANGED tables
       ELSE /\ nextId <= MaxNameRows
            /\ brands' = With(brands, nextId, BrandCreateData(body))
            /\ nextId' = nextId + 1
            /\ res' = Response(201, BrandCreateData(body))
            /\ UNCHANGED <<colors, styles, collections, products, variants,
                           productCollections, variantCollections>>

CollectionCreateData(body) ==
    CollectionRow(Trim(body.name.s), Stored(OptionalTrim(body.description)))

PostCollection(body) ==
    /\ req' = [body |-> body, route |-> "POST /collections"]
    /\ IF Falsy(body.name)
       THEN res' = Response(400, NoData) /\ UNCHANGED tables
       ELSE IF TrimThrows(body.name) \/ TrimThrows(body.description)
       THEN res' = Response(500, NoData) /\ UNCHANGED tables
       ELSE IF NameTaken(collections, CollectionCreateData(body).name)
       THEN res' = Response(400, NoData) /\ UNCHANGED tables
       ELSE /\ nextId <= MaxNameRows
            /\ collections' = With(collections, nextId, CollectionCreateData(body))
            /\ nextId' = nextId + 1
            /\ res' = Response(201, CollectionCreateData(body))
            /\ UNCHANGED <<colors, styles, brands, products, variants,
                           productCollections, variantCollections>>

-----------------------------------------------------------------------------
(* Names specification: an empty store; colors, styles, brands and          *)
(* collections are created.                                                 *)

InitNames ==
    /\ colors = NoRows /\ styles = NoRows /\ brands = NoRows /\ collections = NoRows
    /\ products = NoRows /\ variants = NoRows
    /\ productCollections = {} /\ variantCollections = {}
    /\ nextId = 1
    /\ req = NoRequest
    /\ res = Response(0, NoData)

sTealPadded == <<" ", "T","e","a","l", " ">>
sSkinnyLower == <<"s","k","i","n","n","y">>
sHex == <<"#","0","0","8","0","8","0">>

NameValues == {Undefined, JStr(<<>>), JStr(sTeal), JStr(sTealPadded), JStr(sRed), JNum(7)}

PostColorRequest ==
    \E body \in [name : NameValues, hexCode : {Undefined, JStr(sHex)}] : PostColor(body)
PostStyleRequest ==
    \E body \in [name : NameValues, fitType : {JStr(sSkinnyLower)}] : PostStyle(body)
PostBrandRequest ==
    \E body \in [name : NameValues, logo : {Undefined}] : PostBrand(body)
PostCollectionRequest ==
    \E body \in [name : NameValues, description : {Undefined}] : PostCollection(body)

NextNames ==
    \/ PostColorRequest
    \/ PostStyleRequest
    \/ PostBrandRequest
    \/ PostCollectionRequest

SpecNames == InitNames /\ [][NextNames]_vars

\* the step handled a POST on route whose name, trimmed, is the name of a row of table
DuplicateStep(route, table) ==
    /\ req'.route = route
    /\ req'.body.name.t = "string"
    /\ NameTaken(table, Trim(req'.body.name.s))

RowsNamed(table, name) == {r \in DOMAIN table : table[r].name = name}

\* C5: a POST to /colors, /styles, /brands or /collections whose trimmed name is
\* that of an existing row responds 400 and inserts nothing; a POST /colors with
\* only a new name responds 201 with the name and hexCode null, and no name is
\* ever held by two rows.
C5_DuplicateNameRejected ==
    [][/\ \/ DuplicateStep("POST /colors", colors)
          \/ DuplicateStep("POST /styles", styles)
          \/ DuplicateStep("POST /brands", brands)
          \/ DuplicateStep("POST /collections", collections)
          => res'.status = 400 /\ UNCHANGED tables
       /\ /\ req'.route = "POST /colors"
          /\ req'.body.name.t = "string" /\ req'.body.name.s # <<>>
          /\ req'.body.hexCode = Undefined
          /\ ~NameTaken(colors, Trim(req'.body.name.s))
          => /\ res'.status = 201
             /\ res'.data.name = Trim(req'.body.name.s)
             /\ res'.data.hexCode = JNull
             /\ Cardinality(RowsNamed(colors', res'.data.name)) = 1
       /\ \A r \in DOMAIN colors' : Cardinality(RowsNamed(colors', colors'[r].name)) = 1
       /\ \A r \in DOMAIN styles' : Cardinality(RowsNamed(styles', styles'[r].name)) = 1
       /\ \A r \in DOMAIN brands' : Cardinality(RowsNamed(brands', brands'[r].name)) = 1
       /\ \A r \in DOMAIN collections' :
             Cardinality(RowsNamed(collections', collections'[r].name)) = 1]_vars

\* the POST /colors {name: "Teal"} was repeated: 400, and one row is named Teal
C5_Witness ==
    /\ req.route = "POST /colors"
    /\ req.body = [name |-> JStr(sTeal), hexCode |-> Undefined]
    /\ res.status = 400
    /\ Cardinality(RowsNamed(colors, sTeal)) = 1
    /\ \A r \in RowsNamed(colors, sTeal) : colors[r].hexCode = JNull

-----------------------------------------------------------------------------
(* PUT /styles/:id *)

\* P2002 on an update: another row holds this name
NameTakenByEarlier(table, id, name) ==
    \E r \in DOMAIN table : r < id /\ table[r].name = name

NameTakenByOther(table, id, name) ==
    \E r \in DOMAIN table \ {id} : table[r].name = name

\* x.trim() and x.toUpperCase() on a value that is in the body
MethodThrows(v) == v.t \in {"number", "null"}

PutStyle(id, body) ==
    /\ req' = [id |-> id, body |-> body, route |-> "PUT /styles/:id"]
    /\ IF id \notin DOMAIN styles
       THEN res' = Response(404, NoData) /\ UNCHANGED tables
       ELSE IF body.name # Undefined /\ MethodThrows(body.name)
       THEN res' = Response(500, NoData) /\ UNCHANGED tables
       ELSE IF body.fitType # Undefined /\ MethodThrows(body.fitType)
       THEN res' = Response(500, NoData) /\ UNCHANGED tables
       ELSE IF body.fitType # Undefined /\ ToUpperCase(body.fitType.s) \notin validFitTypes
       THEN res' = Response(400, NoData) /\ UNCHANGED tables
       ELSE LET updated == [styles[id] EXCEPT
                              !.name = IF body.name = Undefined THEN @ ELSE Trim(body.name.s),
                              !.fitType = IF body.fitType = Undefined THEN @
                                          ELSE ToUpperCase(body.fitType.s)]
            IN  IF NameTakenByOther(styles, id, updated.name)
                THEN res' = Response(400, NoData) /\ UNCHANGED tables
                ELSE /\ styles' = [styles EXCEPT ![id] = updated]
                     /\ res' = Response(200, updated)
                     /\ UNCHANGED <<colors, brands, collections, products, variants,
                                    productCollections, variantCollections, nextId>>

-----------------------------------------------------------------------------
(* PUT /colors/:id, /brands/:id, /collections/:id *)

\* updateData of PUT /colors/:id applied to the row: name.trim() when a name is
\* given, hexCode?.trim() || null when a hexCode is given
ColorUpdated(existing, body) ==
    [existing EXCEPT
        !.name = IF body.name = Undefined THEN @ ELSE Trim(body.name.s),
        !.hexCode = IF body.hexCode = Undefined THEN @ ELSE OptionalTrimOrNull(body.hexCode)]

PutColor(id, body) ==
    /\ req' = [id |-> id, body |-> body, route |-> "PUT /colors/:id"]
    /\ IF id \notin DOMAIN colors
       THEN res' = Response(404, NoData) /\ UNCHANGED tables
       ELSE IF body.name # Undefined /\ MethodThrows(body.name)
       THEN res' = Response(500, NoData) /\ UNCHANGED tables
       ELSE IF TrimThrows(body.hexCode)
       THEN res' = Response(500, NoData) /\ UNCHANGED tables
       ELSE LET updated == ColorUpdated(colors[id], body)
            IN  IF NameTakenByOther(colors, id, updated.name)
                THEN res' = Response(400, NoData) /\ UNCHANGED tables
                ELSE /\ colors' = [colors EXCEPT ![id] = updated]
                     /\ res' = Response(200, updated)
                     /\ UNCHANGED <<styles, brands, collections, products, variants,
                                    productCollections, variantCollections, nextId>>

\* updateData of PUT /brands/:id applied to the row: logo?.trim() is undefined for
\* a null logo, and a column given undefined is not updated
BrandUpdated(existing, body) ==
    [existing EXCEPT
        !.name = IF body.name = Undefined THEN @ ELSE Trim(body.name.s),
        !.logo = IF OptionalTrim(body.logo) = Undefined THEN @ ELSE OptionalTrim(body.logo)]

PutBrand(id, body) ==
    /\ req' = [id |-> id, body |-> body, route |-> "PUT /brands/:id"]
    /\ IF id \notin DOMAIN brands
       THEN res' = Response(404, NoData) /\ UNCHANGED tables
       ELSE IF body.name # Undefined /\ MethodThrows(body.name)
       THEN res' = Response(500, NoData) /\ UNCHANGED tables
       ELSE IF TrimThrows(body.logo)
       THEN res' = Response(500, NoData) /\ UNCHANGED tables
       ELSE LET updated == BrandUpdated(brands[id], body)
            IN  IF NameTakenByOther(brands, id, updated.name)
                THEN res' = Response(400, NoData) /\ UNCHANGED tables
                ELSE /\ brands' = [brands EXCEPT ![id] = updated]
                     /\ res' = Response(200, updated)
                     /\ UNCHANGED <<colors, styles, collections, products, variants,
                                    productCollections, variantCollections, nextId>>

\* updateData of PUT /collections/:id applied to the row
CollectionUpdated(existing, body) ==
    [existing EXCEPT
        !.name = IF body.name = Undefined THEN @ ELSE Trim(body.name.s),
        !.description = IF OptionalTrim(body.description) = Undefined THEN @
                        ELSE OptionalTrim(body.description)]

PutCollection(id, body) ==
    /\ req' = [id |-> id, body |-> body, route |-> "PUT /collections/:id"]
    /\ IF id \notin DOMAIN collections
       THEN res' = Response(404, NoData) /\ UNCHANGED tables
       ELSE IF body.name # Undefined /\ MethodThrows(body.name)
       THEN res' = Response(500, NoData) /\ UNCHANGED tables
       ELSE IF TrimThrows(body.description)
       THEN res' = Response(500, NoData) /\ UNCHANGED tables
       ELSE LET updated == CollectionUpdated(collections[id], body)
            IN  IF NameTakenByOther(collections, id, updated.name)
                THEN res' = Response(400, NoData) /\ UNCHANGED tables
                ELSE /\ collections' = [collections EXCEPT ![id] = updated]
                     /\ res' = Response(200, updated)
                     /\ UNCHANGED <<colors, styles, brands, products, variants,
                                    productCollections, variantCollections, nextId>>

-----------------------------------------------------------------------------
(* POST /colors/bulk, POST /styles/bulk *)

\* the array of a bulk body: an array of entries, or no array
NoArray == [isArray |-> FALSE, items |-> <<>>]
Array(items) == [isArray |-> TRUE, items |-> items]

\* createMany with skipDuplicates: the rows are inserted in order, a row whose name
\* is held by a row of the table, old or just inserted, is skipped
RECURSIVE CreateManySkipDuplicates(_, _, _)
CreateManySkipDuplicates(table, rows, id) ==
    IF rows = <<>> THEN [nextId |-> id, table |-> table, count |-> 0]
    ELSE IF NameTaken(table, Head(rows).name)
    THEN CreateManySkipDuplicates(table, Tail(rows), id)
    ELSE LET rest == CreateManySkipDuplicates(With(table, id, Head(rows)), Tail(rows), id + 1)
         IN  [rest EXCEPT !.count = @ + 1]

\* color.name?.trim()
NameTrimmed(entry) == OptionalTrim(entry.name)

ColorEntryThrows(entry) == TrimThrows(entry.name)
ColorEntryValid(entry) == ~Falsy(NameTrimmed(entry))

BulkColors(body) ==
    /\ req' = [body |-> body, route |-> "POST /colors/bulk"]
    /\ IF ~body.colors.isArray \/ Len(body.colors.items) = 0
       THEN res' = Response(400, NoData) /\ UNCHANGED tables
       ELSE IF \E i \in 1..Len(body.colors.items) : ColorEntryThrows(body.colors.items[i])
       THEN res' = Response(500, NoData) /\ UNCHANGED tables
       ELSE LET validColors == SelectSeq(body.colors.items, ColorEntryValid)
            IN  IF Len(validColors) = 0
                THEN res' = Response(400, NoData) /\ UNCHANGED tables
                ELSE IF \E i \in 1..Len(validColors) : TrimThrows(validColors[i].hexCode)
                THEN res' = Response(500, NoData) /\ UNCHANGED tables
                ELSE LET createdColors ==
                             CreateManySkipDuplicates(
                                 colors,
                                 [i \in 1..Len(validColors) |-> ColorCreateData(validColors[i])],
                                 nextId)
                     IN  /\ createdColors.nextId <= MaxNameRows + 1
                         /\ colors' = createdColors.table
                         /\ nextId' = createdColors.nextId
                         /\ res' = Response(201, [count |-> createdColors.count])
                         /\ UNCHANGED <<styles, brands, collections, products, variants,
                                        productCollections, variantCollections>>

\* style.name?.trim() && style.fitType && validFitTypes.includes(style.fitType.toUpperCase())
StyleEntryThrows(entry) ==
    \/ TrimThrows(entry.name)
    \/ /\ ~Falsy(NameTrimmed(entry))
       /\ ~Falsy(entry.fitType)
       /\ entry.fitType.t # "string"

StyleEntryValid(entry) ==
    /\ ~Falsy(NameTrimmed(entry))
    /\ ~Falsy(entry.fitType)
    /\ ToUpperCase(entry.fitType.s) \in validFitTypes

BulkStyles(body) ==
    /\ req' = [body |-> body, route |-> "POST /styles/bulk"]
    /\ IF ~body.styles.isArray \/ Len(body.styles.items) = 0
       THEN res' = Response(400, NoData) /\ UNCHANGED tables
       ELSE IF \E i \in 1..Len(body.styles.items) : StyleEntryThrows(body.styles.items[i])
       THEN res' = Response(500, NoData) /\ UNCHANGED tables
       ELSE LET validStyles == SelectSeq(body.styles.items, StyleEntryValid)
            IN  IF Len(validStyles) = 0
                THEN res' = Response(400, NoData) /\ UNCHANGED tables
                ELSE LET createdStyles ==
                             CreateManySkipDuplicates(
                                 styles,
                                 [i \in 1..Len(validStyles) |-> StyleCreateData(validStyles[i])],
                                 nextId)
                     IN  /\ createdStyles.nextId <= MaxNameRows + 1
                         /\ styles' = createdStyles.table
                         /\ nextId' = createdStyles.nextId
                         /\ res' = Response(201, [count |-> createdStyles.count])
                         /\ UNCHANGED <<colors, brands, collections, products, variants,
                                        productCollections, variantCollections>>

-----------------------------------------------------------------------------
(* Styles specification: an empty store; styles are created one at a time,  *)
(* updated and created in bulk.                                             *)

sRelaxedLower == <<"r","e","l","a","x","e","d">>
sWIDE == <<"W","I","D","E">>
sBlank == <<" ">>

\* the arrays of at most MaxBatch entries
Arrays(entries) == {Array(items) : items \in UNION {[1..n -> entries] : n \in 0..MaxBatch}}

StyleEntry(name, fitType) == [name |-> name, fitType |-> fitType]

StylePostBodies ==
    [name : {Undefined, JStr(sTeal), JStr(sTealPadded)},
     fitType : {Undefined, JStr(sSkinnyLower), JStr(sWIDE)}]

StylePutBodies ==
    [name : {Undefined, JStr(sRed)},
     fitType : {Undefined, JStr(sRelaxedLower), JStr(sWIDE), JNull}]

StyleBulkEntries ==
    {StyleEntry(JStr(sTeal), JStr(sSkinnyLower)),
     StyleEntry(JStr(sTealPadded), JStr(sCLASSIC)),
     StyleEntry(JStr(sRed), JStr(sWIDE)),
     StyleEntry(Undefined, JStr(sSkinnyLower)),
     StyleEntry(JStr(sDenim), JNum(5))}

\* the entries of the Styles specification
StyleFewEntries ==
    {StyleEntry(JStr(sTeal), JStr(sSkinnyLower)),
     StyleEntry(JStr(sRed), JStr(sWIDE)),
     StyleEntry(JStr(sDenim), JStr(sCLASSIC))}

PostStyleStylesRequest == \E body \in StylePostBodies : PostStyle(body)
PutStyleRequest == \E id \in 1..MaxNameRows, body \in StylePutBodies : PutStyle(id, body)
BulkStylesStylesRequest ==
    \E styleArray \in Arrays(StyleFewEntries) \cup {NoArray} :
        BulkStyles([styles |-> styleArray])
BulkStylesRequest ==
    \E styleArray \in Arrays(StyleBulkEntries) \cup {NoArray} :
        BulkStyles([styles |-> styleArray])

NextStyles ==
    \/ PostStyleStylesRequest
    \/ PutStyleRequest
    \/ BulkStylesStylesRequest

SpecStyles == InitNames /\ [][NextStyles]_vars

\* the fitType is none of the four values, whatever its case
FitTypeOutside(fitType) ==
    ~(fitType.t = "string" /\ ToUpperCase(fitType.s) \in {sSKINNY, sRELAXED, sOVERSIZED, sCLASSIC})

\* the step handled a create, or an update of a stored style that supplies a fitType
StyleWriteStep ==
    \/ req'.route = "POST /styles"
    \/ req'.route = "PUT /styles/:id" /\ req'.id \in DOMAIN styles
                                       /\ req'.body.fitType # Undefined

\* C6: every stored style's fitType is one of SKINNY, RELAXED, OVERSIZED, CLASSIC;
\* a create or update that succeeds stores the supplied fitType upper-cased
\* ("skinny" as "SKINNY"); a create or update whose fitType is outside the four
\* values responds 400 and changes no style.
C6_FitTypeEnum ==
    [][/\ \A r \in DOMAIN styles' :
             styles'[r].fitType \in {sSKINNY, sRELAXED, sOVERSIZED, sCLASSIC}
       /\ StyleWriteStep /\ res'.success
          => /\ res'.data.fitType = ToUpperCase(req'.body.fitType.s)
             /\ req'.body.fitType = JStr(sSkinnyLower) => res'.data.fitType = sSKINNY
       /\ StyleWriteStep /\ FitTypeOutside(req'.body.fitType)
          => res'.status = 400 /\ styles' = styles]_vars

-----------------------------------------------------------------------------
(* Bulk specification: an empty store; colors and styles are created in     *)
(* bulk.                                                                    *)

ColorEntry(name) == [name |-> name, hexCode |-> Undefined]

ColorBulkEntries ==
    {ColorEntry(JStr(sTeal)), ColorEntry(JStr(sTealPadded)), ColorEntry(JStr(sRed)),
     ColorEntry(JStr(sBlank)), ColorEntry(JNum(5))}

BulkColorsRequest ==
    \E colorArray \in Arrays(ColorBulkEntries) \cup {NoArray} :
        BulkColors([colors |-> colorArray])

NextBulk ==
    \/ BulkColorsRequest
    \/ BulkStylesRequest

SpecBulk == InitNames /\ [][NextBulk]_vars

\* an entry with a non-blank name
HasName(entry) == entry.name.t = "string" /\ Trim(entry.name.s) # <<>>

\* an entry the endpoint of the step accepts: a non-blank name, and for a style a
\* fitType that is one of the four values
ValidEntry(entry) ==
    /\ HasName(entry)
    /\ req'.route = "POST /styles/bulk" => ~FitTypeOutside(entry.fitType)

BulkItems ==
    IF req'.route = "POST /colors/bulk" THEN req'.body.colors.items ELSE req'.body.styles.items

BulkIsArray ==
    IF req'.route = "POST /colors/bulk" THEN req'.body.colors.isArray ELSE req'.body.styles.isArray

BulkStep == req'.route \in {"POST /colors/bulk", "POST /styles/bulk"}

ValidIndexes == {i \in 1..Len(BulkItems) : ValidEntry(BulkItems[i])}

Names(table) == {table[r].name : r \in DOMAIN table}

\* what the step's bulk insert makes of table, whose value after the step is tableAfter
BulkInserted(table, tableAfter) ==
    /\ \A r \in DOMAIN table : r \in DOMAIN tableAfter /\ tableAfter[r] = table[r]
    /\ Names(tableAfter) = Names(table) \cup {Trim(BulkItems[i].name.s) : i \in ValidIndexes}
    /\ \A r \in DOMAIN tableAfter : Cardinality(RowsNamed(tableAfter, tableAfter[r].name)) = 1
    /\ res'.data.count = Cardinality(DOMAIN tableAfter) - Cardinality(DOMAIN table)

\* C9: a bulk request drops the entries without a non-blank name (for styles also
\* those without one of the four fitTypes), inserts each remaining entry whose
\* trimmed name is neither stored nor earlier in the batch, leaves the existing
\* rows as they are and reports the number of rows it inserted.
C9_BulkInsertsValidEntries ==
    [][BulkStep /\ BulkIsArray /\ ValidIndexes # {}
       => /\ res'.success
          /\ req'.route = "POST /colors/bulk" => BulkInserted(colors, colors')
          /\ req'.route = "POST /styles/bulk" => BulkInserted(styles, styles')]_vars

\* C10: a bulk request whose body is not a non-empty array, or holds no valid
\* entry, responds 400 and inserts nothing; invalid entries beside a valid one
\* never make the request fail.
C10_BulkInvalidEntries ==
    [][BulkStep
       => /\ ~BulkIsArray \/ ValidIndexes = {} => res'.status = 400 /\ UNCHANGED tables
          /\ BulkIsArray /\ ValidIndexes # {} => res'.success]_vars

-----------------------------------------------------------------------------
(* The list endpoints: GET /products, /variants, /colors, /styles, /brands, *)
(* /collections                                                             *)

Min(a, b) == IF a <= b THEN a ELSE b

\* a destructuring default: the default replaces undefined only
Default(v, d) == IF v = Undefined THEN d ELSE v

DefaultPage == 1
DefaultLimitProducts == 20
DefaultLimitVariants == 20
DefaultLimitNames == 50

\* Math.ceil(a / b) for a >= 0 and b > 0
Ceil(a, b) == IF a % b = 0 THEN a \div b ELSE (a \div b) + 1

\* the leading digits of s
RECURSIVE DigitRun(_)
DigitRun(s) ==
    IF s # <<>> /\ IsDigit(Head(s)) THEN <<Head(s)>> \o DigitRun(Tail(s)) ELSE <<>>

RECURSIVE Pow10(_)
Pow10(k) == IF k = 0 THEN 1 ELSE 10 * Pow10(k - 1)

\* a decimal number n / d
Decimal(n, d) == [n |-> n, d |-> d, nan |-> FALSE]
NaNFloat == [n |-> 0, d |-> 1, nan |-> TRUE]

\* parseFloat on a string of the form [space] [sign] digits [. digits] rest; NaN
\* without a digit (the model's strings carry no exponent)
ParseFloat(s) ==
    LET t == TrimStart(s)
        neg == t # <<>> /\ Head(t) = "-"
        u == IF t # <<>> /\ Head(t) \in {"-", "+"} THEN Tail(t) ELSE t
        whole == DigitRun(u)
        rest == SubSeq(u, Len(whole) + 1, Len(u))
        fraction == IF rest # <<>> /\ Head(rest) = "." THEN DigitRun(Tail(rest)) ELSE <<>>
        digits == DigitsPrefix(whole \o fraction, 0)
    IN  IF whole = <<>> /\ fraction = <<>> THEN NaNFloat
        ELSE Decimal(IF neg THEN 0 - digits ELSE digits, Pow10(Len(fraction)))

\* a.n / a.d >= b.n / b.d, the denominators being positive
Gte(a, b) == a.n * b.d >= b.n * a.d
Lte(a, b) == a.n * b.d <= b.n * a.d
Gt(a, b) == a.n * b.d > b.n * a.d

\* { contains: sub, mode: 'insensitive' } on a string column
Contains(s, sub) ==
    \E i \in 0..(Len(s) - Len(sub)) :
        SubSeq(ToUpperCase(s), i + 1, i + Len(sub)) = ToUpperCase(sub)

\* the same on a nullable column, null matching nothing
ContainsValue(v, sub) == v.t = "string" /\ Contains(v.s, sub)

\* the place of each letter in the alphabet
RankOf ==
    [c \in {UpperLetters[i] : i \in 1..Len(UpperLetters)} |->
        CHOOSE i \in 1..Len(UpperLetters) : UpperLetters[i] = c]

CharRank(c) == IF UpperChar(c) \in DOMAIN RankOf THEN RankOf[UpperChar(c)] ELSE 0

\* orderBy name asc: a sorts before b
RECURSIVE StringBefore(_, _)
StringBefore(a, b) ==
    IF b = <<>> THEN FALSE
    ELSE IF a = <<>> THEN TRUE
    ELSE IF CharRank(Head(a)) # CharRank(Head(b)) THEN CharRank(Head(a)) < CharRank(Head(b))
    ELSE StringBefore(Tail(a), Tail(b))

\* the ids in the order before, the pairs <<q, r>> of them of which q sorts before r,
\* a strict total order
Ordered(ids, before) ==
    [i \in 1..Cardinality(ids) |->
        CHOOSE r \in ids : Cardinality({q \in ids : <<q, r>> \in before}) = i - 1]

\* the rows of a result, each with its id
Rows(table, ids) == [i \in 1..Len(ids) |-> [id |-> ids[i], row |-> table[ids[i]]]]

\* const skip = (parseInt(page) - 1) * parseInt(limit)
SkipFromPageOne(page, limit) == ParseInt(page).n * ParseInt(limit).n
Skip(page, limit) == (ParseInt(page).n - 1) * ParseInt(limit).n

\* findMany({ skip, take }) on the ordered rows that match
FindMany(matching, skip, take) ==
    SubSeq(matching, skip + 1, Min(Len(matching), skip + take))

Pagination(page, limit, total) ==
    [page |-> ParseInt(page).n,
     limit |-> ParseInt(limit).n,
     total |-> total,
     pages |-> Ceil(total, ParseInt(limit).n)]

ListResponse(data, pagination) ==
    [status |-> 200, data |-> data, success |-> TRUE, pagination |-> pagination]

\* the response of a list handler to page and limit over the ordered matching rows
ListPage(page, limit, matching) ==
    ListResponse(FindMany(matching, Skip(page, limit), ParseInt(limit).n),
                 Pagination(page, limit, Len(matching)))

sTrue == <<"t","r","u","e">>
sFalse == <<"f","a","l","s","e">>
sAsc == <<"a","s","c">>
sDesc == <<"d","e","s","c">>
sCreatedAt == <<"c","r","e","a","t","e","d","A","t">>

\* the column a sortBy names
Column(sortBy) == IF sortBy = JStr(sCreatedAt) THEN "createdAt" ELSE "price"

\* orderBy[sortBy] = sortOrder on rows whose values in the column differ
SortedBefore(table, query, q, r) ==
    LET column == Column(Default(query.sortBy, JStr(sCreatedAt)))
        a == IF column = "price" THEN table[q].price ELSE Decimal(table[q].createdAt, 1)
        b == IF column = "price" THEN table[r].price ELSE Decimal(table[r].createdAt, 1)
    IN  IF Default(query.sortOrder, JStr(sDesc)) = JStr(sAsc) THEN Gt(b, a) ELSE Gt(a, b)

ProductWhereExclusive(query, row) ==
    /\ ~Falsy(query.search)
       => \/ Contains(row.name, query.search.s)
          \/ ContainsValue(row.description, query.search.s)
          \/ Contains(row.sku, query.search.s)
    /\ query.brandId # NullId => row.brandId = query.brandId
    /\ query.productTypeId # NullId => row.productTypeId = query.productTypeId
    /\ query.inStock # Undefined => row.inStock = (query.inStock = JStr(sTrue))
    /\ ~Falsy(query.minPrice) => Gt(row.price, ParseFloat(query.minPrice.s))
    /\ ~Falsy(query.maxPrice) => Gt(ParseFloat(query.maxPrice.s), row.price)

ProductWhere(query, row) ==
    /\ ~Falsy(query.search)
       => \/ Contains(row.name, query.search.s)
          \/ ContainsValue(row.description, query.search.s)
          \/ Contains(row.sku, query.search.s)
    /\ query.brandId # NullId => row.brandId = query.brandId
    /\ query.productTypeId # NullId => row.productTypeId = query.productTypeId
    /\ query.inStock # Undefined => row.inStock = (query.inStock = JStr(sTrue))
    /\ ~Falsy(query.minPrice) => Gte(row.price, ParseFloat(query.minPrice.s))
    /\ ~Falsy(query.maxPrice) => Lte(row.price, ParseFloat(query.maxPrice.s))

\* the products that match the query, in its order
ProductsMatching(query) ==
    LET ids == {r \in DOMAIN products : ProductWhere(query, products[r])}
    IN  Rows(products,
             Ordered(ids, {pair \in ids \X ids :
                              SortedBefore(products, query, pair[1], pair[2])}))

GetProducts(query) ==
    /\ req' = [route |-> "GET /products", query |-> query]
    /\ res' = ListPage(Default(query.page, JNum(DefaultPage)),
                       Default(query.limit, JNum(DefaultLimitProducts)),
                       ProductsMatching(query))
    /\ UNCHANGED tables

VariantWhereNonNegative(query, row) ==
    /\ ~Falsy(query.search)
       => \/ Contains(row.variantName, query.search.s)
          \/ Contains(row.fullVariantName, query.search.s)
          \/ Contains(row.sku, query.search.s)
    /\ query.productId # NullId => row.productId = query.productId
    /\ query.colorId # NullId => row.colorId = query.colorId
    /\ query.styleId # NullId => row.styleId = query.styleId
    /\ query.inStock # Undefined
       => IF query.inStock = JStr(sTrue) THEN row.stock >= 0 ELSE row.stock <= 0

VariantWhere(query, row) ==
    /\ ~Falsy(query.search)
       => \/ Contains(row.variantName, query.search.s)
          \/ Contains(row.fullVariantName, query.search.s)
          \/ Contains(row.sku, query.search.s)
    /\ query.productId # NullId => row.productId = query.productId
    /\ query.colorId # NullId => row.colorId = query.colorId
    /\ query.styleId # NullId => row.styleId = query.styleId
    /\ query.inStock # Undefined
       => IF query.inStock = JStr(sTrue) THEN row.stock > 0 ELSE row.stock <= 0

VariantsMatching(query) ==
    LET ids == {r \in DOMAIN variants : VariantWhere(query, variants[r])}
    IN  Rows(variants,
             Ordered(ids, {pair \in ids \X ids :
                              SortedBefore(variants, query, pair[1], pair[2])}))

GetVariants(query) ==
    /\ req' = [route |-> "GET /variants", query |-> query]
    /\ res' = ListPage(Default(query.page, JNum(DefaultPage)),
                       Default(query.limit, JNum(DefaultLimitVariants)),
                       VariantsMatching(query))
    /\ UNCHANGED tables

\* where: { name: { contains: search, mode: 'insensitive' } }, or {} without a search
NameWhere(query, row) == ~Falsy(query.search) => Contains(row.name, query.search.s)

\* the rows ids of table in the order of their ids
NamesMatchingById(table, ids) ==
    Rows(table, Ordered(ids, {pair \in ids \X ids : pair[1] < pair[2]}))

\* the rows ids of table, orderBy name asc
NamesMatching(table, ids) ==
    Rows(table,
         Ordered(ids, {pair \in ids \X ids :
                          StringBefore(table[pair[1]].name, table[pair[2]].name)}))

ColorsMatching(query) ==
    NamesMatching(colors, {r \in DOMAIN colors : NameWhere(query, colors[r])})

GetColors(query) ==
    /\ req' = [route |-> "GET /colors", query |-> query]
    /\ res' = ListPage(Default(query.page, JNum(DefaultPage)),
                       Default(query.limit, JNum(DefaultLimitNames)),
                       ColorsMatching(query))
    /\ UNCHANGED tables

StyleWhere(query, row) ==
    /\ NameWhere(query, row)
    /\ ~Falsy(query.fitType) => row.fitType = ToUpperCase(query.fitType.s)

StylesMatching(query) ==
    NamesMatching(styles, {r \in DOMAIN styles : StyleWhere(query, styles[r])})

GetStyles(query) ==
    /\ req' = [route |-> "GET /styles", query |-> query]
    /\ res' = ListPage(Default(query.page, JNum(DefaultPage)),
                       Default(query.limit, JNum(DefaultLimitNames)),
                       StylesMatching(query))
    /\ UNCHANGED tables

BrandsMatching(query) ==
    NamesMatching(brands, {r \in DOMAIN brands : NameWhere(query, brands[r])})

GetBrands(query) ==
    /\ req' = [route |-> "GET /brands", query |-> query]
    /\ res' = ListPage(Default(query.page, JNum(DefaultPage)),
                       Default(query.limit, JNum(DefaultLimitNames)),
                       BrandsMatching(query))
    /\ UNCHANGED tables

CollectionWhere(query, row) ==
    ~Falsy(query.search)
    => Contains(row.name, query.search.s) \/ ContainsValue(row.description, query.search.s)

CollectionsMatching(query) ==
    NamesMatching(collections,
                  {r \in DOMAIN collections : CollectionWhere(query, collections[r])})

GetCollections(query) ==
    /\ req' = [route |-> "GET /collections", query |-> query]
    /\ res' = ListPage(Default(query.page, JNum(DefaultPage)),
                       Default(query.limit, JNum(DefaultLimitNames)),
                       CollectionsMatching(query))
    /\ UNCHANGED tables

-----------------------------------------------------------------------------
(* List specification: a store that no request changes; the six list        *)
(* endpoints are read.                                                      *)

sAL == <<"A","L">>

ListProduct(i, name, cents, brandId, inStock) ==
    ProductRow(name, sSku(i), Decimal(cents, 100), brandId)
    @@ [name |-> name, description |-> JNull, createdAt |-> i,
        productTypeId |-> NullId, inStock |-> inStock]

ListVariant(i, stock, productId, colorId, styleId) ==
    VariantRow(sVariantId(i), sSku(i), stock, productId, colorId, styleId)
    @@ [fullVariantName |-> sVariantId(i), variantName |-> sVariantId(i), createdAt |-> i]

InitList ==
    /\ colors = <<ColorRow(sTeal, JNull), ColorRow(sRed, JNull), ColorRow(sDenim, JNull)>>
    /\ styles = <<StyleRow(sDenim, sSKINNY), StyleRow(sRed, sCLASSIC), StyleRow(sTeal, sSKINNY)>>
    /\ brands = <<BrandRow(sAcme, JNull), BrandRow(sSale, JNull)>>
    /\ collections = <<CollectionRow(sSale, JStr(sTeal)), CollectionRow(sAcme, JNull)>>
    /\ products = <<ListProduct(1, sTeal, 4999, 1, TRUE),
                    ListProduct(2, sRed, 5000, 1, FALSE),
                    ListProduct(3, sDenim, 7500, 2, TRUE),
                    ListProduct(4, sSale, 10000, 1, TRUE),
                    ListProduct(5, sAcme, 10001, 2, TRUE)>>
    /\ variants = <<ListVariant(1, 0, 1, 1, 1),
                    ListVariant(2, 2, 1, 2, 1),
                    ListVariant(3, 5, 2, 1, 2),
                    ListVariant(4, 0 - 1, 2, 2, 2)>>
    /\ productCollections = {} /\ variantCollections = {}
    /\ nextId = 6
    /\ req = NoRequest
    /\ res = Response(0, NoData)

\* the page and limit parameters: the decimal text of a positive integer, or one or
\* both absent
PageValues == {JStr(NatToString(p)) : p \in 1..MaxPage}
LimitValues == {JStr(NatToString(l)) : l \in 1..MaxLimit}
PageLimits ==
    (PageValues \X LimitValues)
    \cup {<<Undefined, Undefined>>, <<Undefined, JStr(<<"2">>)>>, <<JStr(<<"2">>), Undefined>>}

\* the price bounds asked: the text of the parameter and the amount, in hundredths, it
\* denotes
NoBound == [cents |-> -1, text |-> <<>>]
PriceBounds ==
    {[cents |-> 5000, text |-> <<"5","0">>],
     [cents |-> 10000, text |-> <<"1","0","0">>],
     [cents |-> 4999, text |-> <<"4","9",".","9","9">>],
     [cents |-> 7550, text |-> <<"7","5",".","5">>],
     [cents |-> 0, text |-> <<"0">>]}

PriceValue(bound) == IF bound = NoBound THEN Undefined ELSE JStr(bound.text)

PriceRanges ==
    {<<lo, hi>> \in (PriceBounds \cup {NoBound}) \X (PriceBounds \cup {NoBound}) :
        /\ lo.cents \in {-1, 0, 5000, 4999}
        /\ hi.cents \in {-1, 10000, 7550}
        /\ (lo.cents = 4999) = (hi.cents = 7550)
        /\ lo.cents = 0 => hi = NoBound}

NoProductFilter ==
    [brandId |-> NullId, sortOrder |-> Undefined, search |-> Undefined, inStock |-> Undefined]
SomeProductFilter ==
    [brandId |-> 1, sortOrder |-> JStr(sAsc), search |-> JStr(sAL), inStock |-> JStr(sTrue)]

\* every price range without another filter, and one price range with the other filters
ProductFilters ==
    ({NoProductFilter} \X PriceRanges)
    \cup {pair \in {SomeProductFilter} \X PriceRanges : pair[2][1].cents = 4999}

ProductQuery(page, limit, filter, range) ==
    [brandId |-> filter.brandId, page |-> page, limit |-> limit, sortBy |-> Undefined,
     sortOrder |-> filter.sortOrder, search |-> filter.search,
     productTypeId |-> NullId, inStock |-> filter.inStock,
     minPrice |-> PriceValue(range[1]), maxPrice |-> PriceValue(range[2])]

VariantFilters ==
    {[colorId |-> NullId, search |-> Undefined, inStock |-> JStr(sFalse)],
     [colorId |-> 1, search |-> JStr(<<"v">>), inStock |-> JStr(sTrue)]}

VariantQuery(page, limit, filter) ==
    [productId |-> NullId, colorId |-> filter.colorId, styleId |-> NullId, page |-> page,
     limit |-> limit, sortBy |-> Undefined, sortOrder |-> Undefined,
     search |-> filter.search, inStock |-> filter.inStock]

NameQuery(page, limit, search) == [page |-> page, limit |-> limit, search |-> search]
StyleQuery(page, limit, fitType) ==
    [fitType |-> fitType, page |-> page, limit |-> limit, search |-> Undefined]

GetProductsRequest ==
    \E pageLimit \in PageLimits, filter \in ProductFilters :
        GetProducts(ProductQuery(pageLimit[1], pageLimit[2], filter[1], filter[2]))
GetVariantsRequest ==
    \E pageLimit \in PageLimits, filter \in VariantFilters :
        GetVariants(VariantQuery(pageLimit[1], pageLimit[2], filter))
GetColorsRequest ==
    \E pageLimit \in PageLimits, search \in {Undefined, JStr(sAL)} :
        GetColors(NameQuery(pageLimit[1], pageLimit[2], search))
GetStylesRequest ==
    \E pageLimit \in PageLimits, fitType \in {Undefined, JStr(sSkinnyLower)} :
        GetStyles(StyleQuery(pageLimit[1], pageLimit[2], fitType))
GetBrandsRequest ==
    \E pageLimit \in PageLimits : GetBrands(NameQuery(pageLimit[1], pageLimit[2], Undefined))
GetCollectionsRequest ==
    \E pageLimit \in PageLimits, search \in {Undefined, JStr(sTeal)} :
        GetCollections(NameQuery(pageLimit[1], pageLimit[2], search))

NextList ==
    \/ GetProductsRequest
    \/ GetVariantsRequest
    \/ GetColorsRequest
    \/ GetStylesRequest
    \/ GetBrandsRequest
    \/ GetCollectionsRequest

SpecList == InitList /\ [][NextList]_vars

ListRoutes ==
    {"GET /products", "GET /variants", "GET /colors", "GET /styles", "GET /brands",
     "GET /collections"}

\* the rows that match the filter of the step's request, in the order of its endpoint
ListMatching ==
    CASE req'.route = "GET /products" -> ProductsMatching(req'.query)
      [] req'.route = "GET /variants" -> VariantsMatching(req'.query)
      [] req'.route = "GET /colors" -> ColorsMatching(req'.query)
      [] req'.route = "GET /styles" -> StylesMatching(req'.query)
      [] req'.route = "GET /brands" -> BrandsMatching(req'.query)
      [] req'.route = "GET /collections" -> CollectionsMatching(req'.query)

ListDefaultLimit ==
    IF req'.route \in {"GET /products", "GET /variants"} THEN 20 ELSE 50

\* the step's request asks for page p with page size l
PageAsked(p) ==
    \/ req'.query.page = JStr(NatToString(p))
    \/ req'.query.page = Undefined /\ p = 1
LimitAsked(l) ==
    \/ req'.query.limit = JStr(NatToString(l))
    \/ req'.query.limit = Undefined /\ l = ListDefaultLimit

\* C7: a list endpoint asked for page p >= 1 with limit l >= 1 returns the matching
\* rows from offset (p - 1) * l on, at most l of them, and reports as total the
\* number of matching rows and as pages the ceiling of total / l.
C7_Pagination ==
    [][req'.route \in ListRoutes
       => \A p \in 1..MaxPage, l \in 1..MaxLimit \cup {20, 50} :
             PageAsked(p) /\ LimitAsked(l)
             => LET matching == ListMatching
                IN  /\ Len(res'.data) = Max(0, Min(l, Len(matching) - (p - 1) * l))
                    /\ \A i \in 1..Len(res'.data) : res'.data[i] = matching[(p - 1) * l + i]
                    /\ Len(res'.data) <= l
                    /\ res'.pagination.total = Len(matching)
                    /\ res'.pagination.pages * l >= res'.pagination.total
                    /\ (res'.pagination.pages - 1) * l < res'.pagination.total]_vars

\* page 2 of the three colors, two to a page: the last color, total 3, pages 2
C7_Witness ==
    /\ req.route = "GET /colors"
    /\ req.query.page = JStr(<<"2">>) /\ req.query.limit = JStr(<<"2">>)
    /\ req.query.search = Undefined
    /\ Len(res.data) = 1 /\ res.data[1].row.name = sTeal
    /\ res.pagination.total = 3 /\ res.pagination.pages = 2

\* the price of the row is within the bounds, in hundredths
InRange(row, lo, hi) ==
    /\ lo # NoBound => lo.cents * row.price.d <= row.price.n * 100
    /\ hi # NoBound => row.price.n * 100 <= hi.cents * row.price.d

\* the step's request without its price bounds
Unpriced == [req'.query EXCEPT !.minPrice = Undefined, !.maxPrice = Undefined]

\* C8: GET /products with minPrice and/or maxPrice returns only products whose
\* price is within the bounds, bounds included, and reports as total the number
\* of all products within them that match the other filters.
C8_PriceRange ==
    [][req'.route = "GET /products"
       => \A lo \in PriceBounds \cup {NoBound}, hi \in PriceBounds \cup {NoBound} :
             /\ lo # NoBound \/ hi # NoBound
             /\ req'.query.minPrice = PriceValue(lo)
             /\ req'.query.maxPrice = PriceValue(hi)
             => /\ res'.success
                /\ \A i \in 1..Len(res'.data) : InRange(res'.data[i].row, lo, hi)
                /\ res'.pagination.total =
                      Cardinality({r \in DOMAIN products :
                                      /\ InRange(products[r], lo, hi)
                                      /\ ProductWhere(Unpriced, products[r])})]_vars

\* minPrice=50&maxPrice=100&page=1&limit=2: two of the three products in the
\* range, among them the one priced 100.00
C8_Witness ==
    /\ req.route = "GET /products"
    /\ req.query.minPrice = JStr(<<"5","0">>) /\ req.query.maxPrice = JStr(<<"1","0","0">>)
    /\ req.query.page = JStr(<<"1">>) /\ req.query.limit = JStr(<<"2">>)
    /\ req.query.search = Undefined
    /\ Len(res.data) = 2
    /\ \E i \in 1..2 : res.data[i].row.price = Decimal(10000, 100)
    /\ res.pagination.total = 3

-----------------------------------------------------------------------------
(* Update specification: the first row of a table is updated by PUT         *)
(* requests.  The store is one of four: two colors and two styles; two      *)
(* brands and two collections; a brand and a product of it; or two          *)
(* collections, two products and two variants.  The :id of a request is 1,  *)
(* the first row of its table, or 3, which names no row.                    *)

sNavy == <<"N","a","v","y">>
sNavyPadded == <<" ","N","a","v","y"," ">>

InitUpdate ==
    /\ \/ /\ colors = <<ColorRow(sTeal, JStr(sHex)), ColorRow(sRed, JNull)>>
          /\ styles = <<StyleRow(sDenim, sSKINNY), StyleRow(sRed, sCLASSIC)>>
          /\ brands = NoRows /\ collections = NoRows
          /\ products = NoRows /\ variants = NoRows
          /\ productCollections = {} /\ variantCollections = {}
       \/ /\ colors = NoRows /\ styles = NoRows
          /\ brands = <<BrandRow(sAcme, JStr(sHex)), BrandRow(sSale, JNull)>>
          /\ collections = <<CollectionRow(sSale, JNull), CollectionRow(sDenim, JStr(sTeal))>>
          /\ products = NoRows /\ variants = NoRows
          /\ productCollections = {} /\ variantCollections = {}
       \/ /\ colors = NoRows /\ styles = NoRows /\ collections = NoRows
          /\ brands = <<BrandRow(sAcme, JNull)>>
          /\ products = <<ProductRow(<<"p">>, sSku(1), 10, 1)>>
          /\ variants = NoRows
          /\ productCollections = {} /\ variantCollections = {}
       \/ /\ colors = NoRows /\ styles = NoRows /\ brands = NoRows
          /\ collections = <<CollectionRow(sSale, JNull), CollectionRow(sDenim, JStr(sTeal))>>
          /\ products = <<ProductRow(<<"p">>, sSku(1), 10, NullId),
                          ProductRow(<<"q">>, sSku(2), 10, NullId)>>
          /\ variants = <<VariantRow(sVariantId(1), sSku(1), 0, 1, NullId, NullId),
                          VariantRow(sVariantId(2), sSku(2), 0, 1, NullId, NullId)>>
          /\ productCollections = {<<1, 2>>, <<2, 2>>}
          /\ variantCollections = {<<1, 2>>, <<2, 1>>}
    /\ nextId = 3
    /\ req = NoRequest
    /\ res = Response(0, NoData)

UpdateIds == {1, 3}

\* a name: absent, that of the second row, a new one with white space around it, null
UpdateNames == {Undefined, JStr(sRed), JStr(sNavyPadded), JNull}

ColorPutBodies == [name : UpdateNames, hexCode : {Undefined, JStr(sBlank)}]
StyleUpdateBodies ==
    [name : UpdateNames, fitType : {Undefined, JStr(sRelaxedLower), JStr(sWIDE)}]
BrandPutBodies ==
    [name : {Undefined, JStr(sSale), JStr(sNavyPadded), JNull}, logo : {Undefined, JNull}]
CollectionPutBodies ==
    [name : {Undefined, JStr(sDenim), JStr(sNavyPadded), JNull},
     description : {Undefined, JStr(sTealPadded)}]

ProductPutBody(slug, sku, collectionIds) ==
    [slug |-> slug, sku |-> sku, brandId |-> AbsentId, collectionIds |-> collectionIds]

\* the slug of the second product or a new one, the sku of the second product, a
\* collection id that names no collection, and a body that carries the relation
\* brand with a nested update
ProductPutBodies ==
    {ProductPutBody(Undefined, Undefined, NoCollectionIds),
     ProductPutBody(JStr(<<"q">>), Undefined, NoCollectionIds),
     ProductPutBody(JStr(<<"r">>), Undefined, NoCollectionIds),
     ProductPutBody(Undefined, JStr(sSku(2)), CollectionIds(<<1>>)),
     ProductPutBody(Undefined, Undefined, CollectionIds(<<>>)),
     ProductPutBody(Undefined, Undefined, CollectionIds(<<1>>)),
     ProductPutBody(Undefined, Undefined, CollectionIds(<<3>>)),
     ProductPutBody(Undefined, Undefined, NoCollectionIds)
     @@ [brand |-> [update |-> [name |-> sNavy]]]}

VariantPutBody(variantId, sku, collectionIds) ==
    [sku |-> sku, variantId |-> variantId, colorId |-> AbsentId, styleId |-> AbsentId,
     collectionIds |-> collectionIds]

\* the variantId of the second variant, the sku of the second variant or a new one
VariantPutBodies ==
    {VariantPutBody(Undefined, Undefined, NoCollectionIds),
     VariantPutBody(JStr(sVariantId(2)), Undefined, NoCollectionIds),
     VariantPutBody(Undefined, JStr(sSku(2)), CollectionIds(<<1>>)),
     VariantPutBody(Undefined, JStr(sSku(3)), NoCollectionIds),
     VariantPutBody(Undefined, Undefined, CollectionIds(<<>>)),
     VariantPutBody(Undefined, Undefined, CollectionIds(<<1>>))}

PutColorUpdateRequest == \E id \in UpdateIds, body \in ColorPutBodies : PutColor(id, body)
PutStyleUpdateRequest == \E id \in UpdateIds, body \in StyleUpdateBodies : PutStyle(id, body)
PutBrandUpdateRequest == \E id \in UpdateIds, body \in BrandPutBodies : PutBrand(id, body)
PutCollectionUpdateRequest ==
    \E id \in UpdateIds, body \in CollectionPutBodies : PutCollection(id, body)
PutProductUpdateRequest ==
    \E id \in UpdateIds, body \in ProductPutBodies : PutProduct(id, body)
PutVariantUpdateRequest ==
    \E id \in UpdateIds, body \in VariantPutBodies : PutVariant(id, body)

NextUpdate ==
    \/ PutColorUpdateRequest
    \/ PutStyleUpdateRequest
    \/ PutBrandUpdateRequest
    \/ PutCollectionUpdateRequest
    \/ PutProductUpdateRequest
    \/ PutVariantUpdateRequest

SpecUpdate == InitUpdate /\ [][NextUpdate]_vars

\* the step handled a PUT on route for an id that names no row of table
MissingStep(route, table) == req'.route = route /\ req'.id \notin DOMAIN table

\* the step handled a PUT on route for a row of table
UpdateStep(route, table) == req'.route = route /\ req'.id \in DOMAIN table

\* the value, a string, is held in the column by a row of table other than the
\* one the step's request addresses
HeldByOther(table, column, value) ==
    /\ value.t = "string"
    /\ \E r \in DOMAIN table \ {req'.id} : table[r][column] = value.s

\* the same for a name, which the handlers trim
NameHeldByOther(table, name) ==
    /\ name.t = "string"
    /\ \E r \in DOMAIN table \ {req'.id} : table[r].name = Trim(name.s)

\* the PUT was refused with 400 and the row is as it was
Conflict(table, tableAfter) ==
    /\ res'.status = 400
    /\ ~res'.success
    /\ tableAfter[req'.id] = table[req'.id]

\* C12: for every entity a PUT on an id that is not in the store responds 404 and
\* changes nothing, and a PUT that would make a unique field (a name, a product's
\* slug or sku, a variant's variantId or sku) equal to that of another row
\* responds 400 and leaves the row addressed as it was.
C12_UpdateNotFoundAndConflict ==
    [][/\ \/ MissingStep("PUT /colors/:id", colors)
          \/ MissingStep("PUT /styles/:id", styles)
          \/ MissingStep("PUT /brands/:id", brands)
          \/ MissingStep("PUT /collections/:id", collections)
          \/ MissingStep("PUT /products/:id", products)
          \/ MissingStep("PUT /variants/:id", variants)
          => res'.status = 404 /\ ~res'.success /\ UNCHANGED tables
       /\ UpdateStep("PUT /colors/:id", colors) /\ NameHeldByOther(colors, req'.body.name)
          => Conflict(colors, colors')
       /\ UpdateStep("PUT /styles/:id", styles) /\ NameHeldByOther(styles, req'.body.name)
          => Conflict(styles, styles')
       /\ UpdateStep("PUT /brands/:id", brands) /\ NameHeldByOther(brands, req'.body.name)
          => Conflict(brands, brands')
       /\ /\ UpdateStep("PUT /collections/:id", collections)
          /\ NameHeldByOther(collections, req'.body.name)
          => Conflict(collections, collections')
       /\ /\ UpdateStep("PUT /products/:id", products)
          /\ \/ HeldByOther(products, "slug", req'.body.slug)
             \/ HeldByOther(products, "sku", req'.body.sku)
          => Conflict(products, products') /\ productCollections' = productCollections
       /\ /\ UpdateStep("PUT /variants/:id", variants)
          /\ \/ HeldByOther(variants, "variantId", req'.body.variantId)
             \/ HeldByOther(variants, "sku", req'.body.sku)
          => Conflict(variants, variants') /\ variantCollections' = variantCollections]_vars

\* the first variant, whose sku an earlier PUT has changed, was refused the
\* variantId of the second and keeps its own
C12_Witness ==
    /\ req.route = "PUT /variants/:id"
    /\ req.id = 1
    /\ req.body.variantId = JStr(sVariantId(2))
    /\ req.body.sku = Undefined
    /\ res.status = 400
    /\ variants[1].variantId = sVariantId(1)
    /\ variants[1].sku = sSku(3)

-----------------------------------------------------------------------------
(* The application: the middleware before the routers, the 404 handler and  *)
(* the global error handler behind them                                     *)

Message(text) == [env \in NodeEnvs |-> text]

\* app.use('*'): no router has answered
RouteNotFound(url) ==
    /\ req' = [route |-> url]
    /\ res' = [status |-> 404, data |-> NoData, error |-> TRUE,
               message |-> Message("The requested route does not exist.")]
    /\ UNCHANGED tables

\* app.use((error, req, res, next) => ...)
GlobalErrorHandler(error) ==
    IF error.code = "P2002"
    THEN [status |-> 400, data |-> NoData, error |-> TRUE,
          message |-> Message("A record with this data already exists.")]
    ELSE IF error.code = "P2025"
    THEN [status |-> 404, data |-> NoData, error |-> TRUE,
          message |-> Message("The requested record does not exist.")]
    ELSE [status |-> 500, data |-> NoData, error |-> TRUE,
          message |-> [env \in NodeEnvs |->
                          IF env = "development" THEN sErrorMessage
                          ELSE sSomethingWentWrong]]

\* the error express.json passes to next() for a body that is no JSON; it has no code
BodyParseError == [code |-> "undefined", type |-> "entity.parse.failed"]

\* a request whose body express.json cannot parse: the routers are not reached
MalformedBody(route, raw) ==
    /\ req' = [route |-> route, raw |-> raw]
    /\ res' = GlobalErrorHandler(BodyParseError)
    /\ UNCHANGED tables

-----------------------------------------------------------------------------
(* Application specification: an empty store; colors are created and        *)
(* updated, routes that do not exist are asked for and bodies that are no   *)
(* JSON are sent.                                                           *)

UnmatchedRoutes == {"GET /", "GET /api/v1/sizes", "POST /api/v2/colors"}
MalformedBodies == {<<"{">>, <<"{", "n", "a", "m", "e", ":", "}">>}

RouteNotFoundRequest == \E url \in UnmatchedRoutes : RouteNotFound(url)
MalformedBodyRequest ==
    \E route \in {"POST /colors", "PUT /colors/:id"}, raw \in MalformedBodies :
        MalformedBody(route, raw)

NextApp ==
    \/ PostColorRequest
    \/ PutColorUpdateRequest
    \/ RouteNotFoundRequest
    \/ MalformedBodyRequest

SpecApp == InitNames /\ [][NextApp]_vars

\* the step's response is a failure
FailureStep == res'.status >= 400

\* the body of the step's response holds success: false and an error field
FailureEnvelope ==
    /\ "success" \in DOMAIN res'
    /\ res'.success = FALSE
    /\ res'.error

\* C13: every failure response has a body with success: false and an error field,
\* and its status is 400 for a validation failure or a conflict, 404 for a
\* missing record or route, and 500 otherwise.
C13_FailureEnvelope ==
    [][FailureStep
       => /\ FailureEnvelope
          /\ res'.status \in {400, 404, 500}
          /\ req'.route \in UnmatchedRoutes => res'.status = 404
          /\ req'.route = "PUT /colors/:id" /\ req'.id \notin DOMAIN colors
             => res'.status = 404
          /\ req'.route = "POST /colors" /\ "body" \in DOMAIN req' /\ Falsy(req'.body.name)
             => res'.status = 400
          /\ /\ req'.route = "POST /colors" /\ "body" \in DOMAIN req'
             /\ req'.body.name.t = "string" /\ NameTaken(colors, Trim(req'.body.name.s))
             => res'.status = 400]_vars

\* C14: a 500 response carries the underlying error's message in development
\* mode only; under every other NODE_ENV the message is not sent.
C14_MessageOnlyInDevelopment ==
    [][res'.status = 500
       => \A env \in NodeEnvs :
             env # "development" => res'.message[env] # sErrorMessage]_vars

-----------------------------------------------------------------------------
(* Variant filter specification: the store of the List specification, whose *)
(* four variants have the stocks 0, 2, 5 and -1; GET /variants is asked     *)
(* with and without inStock, beside the other filters.                      *)

\* inStock: absent, "true", and values that are not "true"
InStockValues == {Undefined, JStr(sTrue), JStr(sFalse), JStr(<<"T","R","U","E">>), JStr(<<>>)}

VariantStockQueries ==
    {[productId |-> productId, colorId |-> colorId, styleId |-> NullId,
      page |-> Undefined, limit |-> limit, sortBy |-> Undefined, sortOrder |-> sortOrder,
      search |-> search, inStock |-> inStock] :
        productId \in {NullId, 2}, colorId \in {NullId, 1, 2},
        limit \in {Undefined, JStr(<<"1">>)}, sortOrder \in {Undefined},
        search \in {Undefined, JStr(<<"v","2">>)}, inStock \in InStockValues}

GetVariantsStockRequest == \E query \in VariantStockQueries : GetVariants(query)

NextVariantFilter == GetVariantsStockRequest

SpecVariantFilter == InitList /\ [][NextVariantFilter]_vars

\* the ids of the rows of a result
ResultIds(rows) == {rows[i].id : i \in 1..Len(rows)}

\* the variants that match the filters of the step's request other than inStock
OtherFiltersMatch ==
    ResultIds(VariantsMatching([req'.query EXCEPT !.inStock = Undefined]))

\* the variants the step's response stands for: those of its page, and all of
\* them when the request has no limit (the default, 20, exceeds the store)
StockFiltered(expected) ==
    /\ ResultIds(res'.data) \subseteq expected
    /\ res'.pagination.total = Cardinality(expected)
    /\ req'.query.limit = Undefined => ResultIds(res'.data) = expected

\* C16: GET /variants with inStock=true returns exactly the variants matching the
\* other filters whose stock is above zero, with any other inStock exactly those
\* whose stock is zero or below, and without inStock all of them; the two results
\* are disjoint and together cover the variants matching the other filters.
C16_InStockFilter ==
    [][req'.route = "GET /variants"
       => LET others == OtherFiltersMatch
              inStock == {v \in others : variants[v].stock > 0}
              outOfStock == {v \in others : variants[v].stock <= 0}
              asTrue == ResultIds(VariantsMatching([req'.query EXCEPT !.inStock = JStr(sTrue)]))
              asOther == ResultIds(VariantsMatching([req'.query EXCEPT !.inStock = JStr(sFalse)]))
          IN  /\ req'.query.inStock = JStr(sTrue) => StockFiltered(inStock)
              /\ req'.query.inStock \notin {Undefined, JStr(sTrue)} => StockFiltered(outOfStock)
              /\ req'.query.inStock = Undefined => StockFiltered(others)
              /\ asTrue \cap asOther = {}
              /\ asTrue \cup asOther = others]_vars

\* inStock=TRUE, which is not "true", with no other filter: the two variants
\* whose stock is 0 and -1
C16_Witness ==
    /\ req.route = "GET /variants"
    /\ req.query.inStock = JStr(<<"T","R","U","E">>)
    /\ req.query.productId = NullId /\ req.query.colorId = NullId
    /\ req.query.search = Undefined /\ req.query.limit = Undefined
    /\ ResultIds(res.data) = {1, 4}
    /\ res.pagination.total = 2

-----------------------------------------------------------------------------
(* The default order of the list endpoints, under the List specification.   *)

\* the time a row was created: the createdAt column of products and variants; the
\* rows of the four name tables are numbered in the order of their creation
CreatedAt(row) == IF "createdAt" \in DOMAIN row THEN row.createdAt ELSE row.id

NewestFirst(rows) ==
    \A i \in 1..Len(rows), j \in 1..Len(rows) :
        i < j => CreatedAt(rows[i]) > CreatedAt(rows[j])

\* the step's request names neither sortBy nor sortOrder
DefaultOrderAsked ==
    /\ req'.route \in ListRoutes
    /\ "sortBy" \in DOMAIN req'.query => req'.query.sortBy = Undefined
    /\ "sortOrder" \in DOMAIN req'.query => req'.query.sortOrder = Undefined

\* C17: a list endpoint called without sortBy and sortOrder returns its items
\* ordered by creation time descending.
C17_DefaultOrderNewestFirst ==
    [][DefaultOrderAsked => NewestFirst(res'.data)]_vars

-----------------------------------------------------------------------------
(* What an update leaves alone, under the Update specification.             *)

PutStep(route) == req'.route = route

\* the columns absent from the body of the step's request are as they were in
\* the row addressed
FieldsKept(table, tableAfter, columns) ==
    \A column \in columns :
        req'.body[column] = Undefined => tableAfter[req'.id][column] = table[req'.id][column]

\* the rows of the table other than the one addressed are as they were
OtherRowsKept(table, tableAfter) ==
    /\ DOMAIN tableAfter = DOMAIN table
    /\ \A r \in DOMAIN table \ {req'.id} : tableAfter[r] = table[r]

\* the join rows of the parent addressed, and those of the other parents
OwnJoinRows(rows) == {r \in rows : r[1] = req'.id}
OtherJoinRows(rows) == {r \in rows : r[1] # req'.id}

\* C18: a PUT on a Color, Style, Brand or Collection leaves every field absent
\* from the body unchanged; a PUT on a Product or Variant without collectionIds
\* leaves that parent's join rows unchanged; and no PUT changes a row other than
\* the one addressed by :id and its own join rows.
C18_UpdateChangesOnlySupplied ==
    [][/\ UpdateStep("PUT /colors/:id", colors)
          => FieldsKept(colors, colors', {"name", "hexCode"})
       /\ UpdateStep("PUT /styles/:id", styles)
          => FieldsKept(styles, styles', {"name", "fitType"})
       /\ UpdateStep("PUT /brands/:id", brands)
          => FieldsKept(brands, brands', {"name", "logo"})
       /\ UpdateStep("PUT /collections/:id", collections)
          => FieldsKept(collections, collections', {"name", "description"})
       /\ PutStep("PUT /products/:id") /\ ~req'.body.collectionIds.given
          => OwnJoinRows(productCollections') = OwnJoinRows(productCollections)
       /\ PutStep("PUT /variants/:id") /\ ~req'.body.collectionIds.given
          => OwnJoinRows(variantCollections') = OwnJoinRows(variantCollections)
       /\ PutStep("PUT /colors/:id")
          => /\ OtherRowsKept(colors, colors')
             /\ UNCHANGED <<styles, brands, collections, products, variants,
                            productCollections, variantCollections>>
       /\ PutStep("PUT /styles/:id")
          => /\ OtherRowsKept(styles, styles')
             /\ UNCHANGED <<colors, brands, collections, products, variants,
                            productCollections, variantCollections>>
       /\ PutStep("PUT /brands/:id")
          => /\ OtherRowsKept(brands, brands')
             /\ UNCHANGED <<colors, styles, collections, products, variants,
                            productCollections, variantCollections>>
       /\ PutStep("PUT /collections/:id")
          => /\ OtherRowsKept(collections, collections')
             /\ UNCHANGED <<colors, styles, brands, products, variants,
                            productCollections, variantCollections>>
       /\ PutStep("PUT /products/:id")
          => /\ OtherRowsKept(products, products')
             /\ OtherJoinRows(productCollections') = OtherJoinRows(productCollections)
             /\ UNCHANGED <<colors, styles, brands, collections, variants,
                            variantCollections>>
       /\ PutStep("PUT /variants/:id")
          => /\ OtherRowsKept(variants, variants')
             /\ OtherJoinRows(variantCollections') = OtherJoinRows(variantCollections)
             /\ UNCHANGED <<colors, styles, brands, collections, products,
                            productCollections>>]_vars

-----------------------------------------------------------------------------
(* Concurrent requests.  A handler is a sequence of store calls with an     *)
(* await before each; between two of its store calls the store calls of    *)
(* other requests may run.  In the specifications below req[p] is the       *)
(* request process p handles, with the store call it is at (pc) and what it *)
(* has read, and res[p] is its response; each process handles one request.  *)
(* A step is one store call together with the code of the handler up to its *)
(* next store call.                                                         *)

Procs == {1, 2}

NoRequests == [p \in Procs |-> NoRequest]
NoResponses == [p \in Procs |-> Response(0, NoData)]

\* process p has taken no request yet
Idle(p) == req[p] = NoRequest

\* process p is at the store call pc of a request on route
At(p, route, pc) == req[p].route = route /\ req[p].pc = pc

\* the handler awaits its next store call
Proceed(p, request) ==
    /\ req' = [req EXCEPT ![p] = request]
    /\ UNCHANGED res

\* the handler responds
Respond(p, request, status, data) ==
    /\ req' = [req EXCEPT ![p] = [request EXCEPT !.pc = "done"]]
    /\ res' = [res EXCEPT ![p] = Response(status, data)]

Done(p) == req[p] # NoRequest /\ req[p].pc = "done"

-----------------------------------------------------------------------------
(* PATCH /variants/:id/stock, one store call at a time *)

\* the input check and prisma.productVariant.findUnique
StockFindUnique(p, id, body) ==
    LET request == [id |-> id, body |-> body, route |-> "PATCH /variants/:id/stock",
                    pc |-> "findUnique"]
    IN  /\ Idle(p)
        /\ UNCHANGED tables
        /\ IF body.stock = Undefined
           THEN Respond(p, request, 400, NoData)
           ELSE IF id \notin DOMAIN variants
           THEN Respond(p, request, 404, NoData)
           ELSE Proceed(p, [request EXCEPT !.pc = "update"]
                           @@ [existingVariant |-> variants[id]])

\* the switch on operation, over the stock that was read, and
\* prisma.productVariant.update
StockUpdate(p) ==
    LET request == req[p]
        newStock == NewStock(OperationOf(request.body), request.existingVariant.stock,
                             ParseInt(request.body.stock).n)
    IN  /\ At(p, "PATCH /variants/:id/stock", "update")
        /\ IF request.id \notin DOMAIN variants
           THEN \* P2025: the row is gone
                Respond(p, request, 500, NoData) /\ UNCHANGED tables
           ELSE /\ variants' = [variants EXCEPT ![request.id].stock = newStock]
                /\ Respond(p, request, 200, variants'[request.id])
                /\ UNCHANGED <<colors, styles, brands, collections, products,
                               productCollections, variantCollections, nextId>>

-----------------------------------------------------------------------------
(* Stock race specification: one product with two variants; each of two     *)
(* processes handles one stock PATCH.                                       *)

InitStockRace ==
    /\ colors = NoRows /\ styles = NoRows /\ brands = NoRows /\ collections = NoRows
    /\ products = With(NoRows, 1, ProductRow(<<"p">>, sSku(1), 10, NullId))
    /\ \E s2 \in 0..1 :
          variants = With(With(NoRows, 2, VariantRow(sVariantId(2), sSku(2), s2, 1, NullId, NullId)),
                          3, VariantRow(sVariantId(3), sSku(3), 0, 1, NullId, NullId))
    /\ productCollections = {} /\ variantCollections = {}
    /\ nextId = 4
    /\ req = NoRequests
    /\ res = NoResponses

\* amounts to add, to subtract or to set, and a body without stock
RaceStockBodies ==
    [operation : {JStr(sAdd)}, stock : {JNum(1), JNum(2)}]
    \cup [operation : {JStr(sSubtract), Undefined}, stock : {JNum(1)}]
    \cup [operation : {JStr(sAdd)}, stock : {Undefined}]

StockFindUniqueStep ==
    \E p \in Procs, id \in {2, 3}, body \in RaceStockBodies : StockFindUnique(p, id, body)
StockUpdateStep == \E p \in Procs : StockUpdate(p)

NextStockRace ==
    \/ StockFindUniqueStep
    \/ StockUpdateStep

SpecStockRace == InitStockRace /\ [][NextStockRace]_vars

\* process p has answered success to a PATCH that adds to the stock of variant id
Added(p, id) ==
    /\ Done(p)
    /\ req[p].id = id
    /\ req[p].body.operation = JStr(sAdd)
    /\ res[p].success

\* C20: when two PATCH /variants/:id/stock requests with operation "add" and the
\* amounts a and b on the same variant, whose stock is s, have both responded
\* success, the stock stored is s + a + b.  The amounts are positive, so s, the
\* stock before either request, is the lesser of the two stocks read.
C20_NoLostUpdate ==
    \A id \in DOMAIN variants :
        Added(1, id) /\ Added(2, id)
        => variants[id].stock
              = Min(req[1].existingVariant.stock, req[2].existingVariant.stock)
                + req[1].body.stock.n + req[2].body.stock.n

-----------------------------------------------------------------------------
(* DELETE /colors/:id, /styles/:id, /brands/:id, /collections/:id, one      *)
(* store call at a time: findUnique with _count and the two checks, then    *)
(* delete.  What the store does when the row deleted is referenced is set   *)
(* by the relation's onDelete rule: the delete is carried out, the foreign  *)
(* keys that name the row being set to null and its join rows removed, or   *)
(* it is refused and the handler answers 500.  Both outcomes are kept.      *)

\* the rows of table with the foreign key column set to null where it names id
SetNull(table, column, id) ==
    [r \in DOMAIN table |->
        IF table[r][column] = id THEN [table[r] EXCEPT ![column] = NullId] ELSE table[r]]

DeleteColorFindUnique(p, id) ==
    LET request == [id |-> id, route |-> "DELETE /colors/:id", pc |-> "findUnique"]
    IN  /\ Idle(p)
        /\ UNCHANGED tables
        /\ IF id \notin DOMAIN colors
           THEN Respond(p, request, 404, NoData)
           ELSE IF ColorGuard(id)
           THEN Respond(p, request, 400, NoData)
           ELSE Proceed(p, [request EXCEPT !.pc = "delete"]
                           @@ [count |-> Cardinality(ColorVariants(id))])

\* the same step with the check on the references made again, on the store as it
\* is when the delete is issued
DeleteColorDeleteRechecked(p) ==
    LET request == req[p]
    IN  /\ At(p, "DELETE /colors/:id", "delete")
        /\ IF request.id \notin DOMAIN colors
           THEN Respond(p, request, 500, NoData) /\ UNCHANGED tables
           ELSE IF ColorGuard(request.id)
           THEN Respond(p, request, 400, NoData) /\ UNCHANGED tables
           ELSE /\ colors' = Without(colors, request.id)
                /\ Respond(p, request, 200, NoData)
                /\ UNCHANGED <<styles, brands, collections, products, variants,
                               productCollections, variantCollections, nextId>>

DeleteColorDelete(p) ==
    LET request == req[p]
    IN  /\ At(p, "DELETE /colors/:id", "delete")
        /\ IF request.id \notin DOMAIN colors
           THEN Respond(p, request, 500, NoData) /\ UNCHANGED tables
           ELSE \/ /\ colors' = Without(colors, request.id)
                   /\ variants' = SetNull(variants, "colorId", request.id)
                   /\ Respond(p, request, 200, NoData)
                   /\ UNCHANGED <<styles, brands, collections, products,
                                  productCollections, variantCollections, nextId>>
                \/ /\ ColorVariants(request.id) # {}
                   /\ Respond(p, request, 500, NoData)
                   /\ UNCHANGED tables

DeleteStyleFindUnique(p, id) ==
    LET request == [id |-> id, route |-> "DELETE /styles/:id", pc |-> "findUnique"]
    IN  /\ Idle(p)
        /\ UNCHANGED tables
        /\ IF id \notin DOMAIN styles
           THEN Respond(p, request, 404, NoData)
           ELSE IF StyleGuard(id)
           THEN Respond(p, request, 400, NoData)
           ELSE Proceed(p, [request EXCEPT !.pc = "delete"]
                           @@ [count |-> Cardinality(StyleVariants(id))])

DeleteStyleDelete(p) ==
    LET request == req[p]
    IN  /\ At(p, "DELETE /styles/:id", "delete")
        /\ IF request.id \notin DOMAIN styles
           THEN Respond(p, request, 500, NoData) /\ UNCHANGED tables
           ELSE \/ /\ styles' = Without(styles, request.id)
                   /\ variants' = SetNull(variants, "styleId", request.id)
                   /\ Respond(p, request, 200, NoData)
                   /\ UNCHANGED <<colors, brands, collections, products,
                                  productCollections, variantCollections, nextId>>
                \/ /\ StyleVariants(request.id) # {}
                   /\ Respond(p, request, 500, NoData)
                   /\ UNCHANGED tables

DeleteBrandFindUnique(p, id) ==
    LET request == [id |-> id, route |-> "DELETE /brands/:id", pc |-> "findUnique"]
    IN  /\ Idle(p)
        /\ UNCHANGED tables
        /\ IF id \notin DOMAIN brands
           THEN Respond(p, request, 404, NoData)
           ELSE IF BrandGuard(id)
           THEN Respond(p, request, 400, NoData)
           ELSE Proceed(p, [request EXCEPT !.pc = "delete"]
                           @@ [count |-> Cardinality(BrandProducts(id))])

DeleteBrandDelete(p) ==
    LET request == req[p]
    IN  /\ At(p, "DELETE /brands/:id", "delete")
        /\ IF request.id \notin DOMAIN brands
           THEN Respond(p, request, 500, NoData) /\ UNCHANGED tables
           ELSE \/ /\ brands' = Without(brands, request.id)
                   /\ products' = SetNull(products, "brandId", request.id)
                   /\ Respond(p, request, 200, NoData)
                   /\ UNCHANGED <<colors, styles, collections, variants,
                                  productCollections, variantCollections, nextId>>
                \/ /\ BrandProducts(request.id) # {}
                   /\ Respond(p, request, 500, NoData)
                   /\ UNCHANGED tables

DeleteCollectionFindUnique(p, id) ==
    LET request == [id |-> id, route |-> "DELETE /collections/:id", pc |-> "findUnique"]
    IN  /\ Idle(p)
        /\ UNCHANGED tables
        /\ IF id \notin DOMAIN collections
           THEN Respond(p, request, 404, NoData)
           ELSE IF CollectionGuard(id)
           THEN Respond(p, request, 400, NoData)
           ELSE Proceed(p, [request EXCEPT !.pc = "delete"]
                           @@ [count |-> Cardinality(CollectionProducts(id))
                                         + Cardinality(CollectionVariants(id))])

DeleteCollectionDelete(p) ==
    LET request == req[p]
    IN  /\ At(p, "DELETE /collections/:id", "delete")
        /\ IF request.id \notin DOMAIN collections
           THEN Respond(p, request, 500, NoData) /\ UNCHANGED tables
           ELSE \/ /\ collections' = Without(collections, request.id)
                   /\ productCollections' = productCollections \ CollectionProducts(request.id)
                   /\ variantCollections' = variantCollections \ CollectionVariants(request.id)
                   /\ Respond(p, request, 200, NoData)
                   /\ UNCHANGED <<colors, styles, brands, products, variants, nextId>>
                \/ /\ CollectionProducts(request.id) \cup CollectionVariants(request.id) # {}
                   /\ Respond(p, request, 500, NoData)
                   /\ UNCHANGED tables

-----------------------------------------------------------------------------
(* POST /variants, one store call at a time: the validation and findUnique  *)
(* of the product, then create with its nested join rows                    *)

PostVariantFindUnique(p, body) ==
    LET request == [body |-> body, route |-> "POST /variants", pc |-> "findUnique"]
    IN  /\ Idle(p)
        /\ UNCHANGED tables
        /\ IF \/ Falsy(body.variantId) \/ Falsy(body.sku) \/ Falsy(body.fullVariantName)
              \/ Falsy(body.variantName) \/ body.productId \in {AbsentId, NullId}
           THEN Respond(p, request, 400, NoData)
           ELSE IF body.productId \notin DOMAIN products
           THEN Respond(p, request, 404, NoData)
           ELSE Proceed(p, [request EXCEPT !.pc = "create"])

PostVariantCreate(p) ==
    LET request == req[p]
        body == request.body
        stock == IF body.stock = Undefined THEN JNum(0) ELSE body.stock
        ids == IF body.collectionIds.given THEN body.collectionIds.ids ELSE <<>>
        row == VariantRow(Trim(body.variantId.s), Trim(body.sku.s),
                          ParseInt(stock).n, body.productId,
                          IF body.colorId \in {AbsentId, NullId} THEN NullId ELSE body.colorId,
                          IF body.styleId \in {AbsentId, NullId} THEN NullId ELSE body.styleId)
    IN  /\ At(p, "POST /variants", "create")
        /\ IF VariantUniqueViolation(nextId, row.variantId, row.sku)
           THEN Respond(p, request, 400, NoData) /\ UNCHANGED tables
           ELSE IF \/ body.productId \notin DOMAIN products
                   \/ ForeignKeyViolation(body.colorId, colors)
                   \/ ForeignKeyViolation(body.styleId, styles)
                   \/ \E c \in Range(ids) : c \notin DOMAIN collections
           THEN Respond(p, request, 500, NoData) /\ UNCHANGED tables
           ELSE /\ nextId <= MaxId
                /\ variants' = With(variants, nextId, row)
                /\ variantCollections' = variantCollections \cup JoinRows(nextId, ids)
                /\ nextId' = nextId + 1
                /\ Respond(p, request, 201, row)
                /\ UNCHANGED <<colors, styles, brands, collections, products,
                               productCollections>>

-----------------------------------------------------------------------------
(* POST /products: the validation and one store call, create with its       *)
(* nested join rows.  The bodies of the model carry name, slug, sku, price, *)
(* brandId and collectionIds.                                               *)

ProductCreateData(body) ==
    ProductRow(Trim(body.slug.s), Trim(body.sku.s), ParseFloat(body.price.s),
               IF body.brandId \in {AbsentId, NullId} THEN NullId ELSE body.brandId)

PostProductCreate(p, body) ==
    LET request == [body |-> body, route |-> "POST /products", pc |-> "create"]
        ids == IF body.collectionIds.given THEN body.collectionIds.ids ELSE <<>>
    IN  /\ Idle(p)
        /\ IF Falsy(body.name) \/ Falsy(body.slug) \/ Falsy(body.sku) \/ Falsy(body.price)
           THEN Respond(p, request, 400, NoData) /\ UNCHANGED tables
           ELSE IF MethodThrows(body.name) \/ MethodThrows(body.slug) \/ MethodThrows(body.sku)
           THEN Respond(p, request, 500, NoData) /\ UNCHANGED tables
           ELSE IF ProductUniqueViolation(nextId, ProductCreateData(body).slug,
                                          ProductCreateData(body).sku)
           THEN Respond(p, request, 400, NoData) /\ UNCHANGED tables
           ELSE IF \/ ForeignKeyViolation(body.brandId, brands)
                   \/ \E c \in Range(ids) : c \notin DOMAIN collections
           THEN Respond(p, request, 500, NoData) /\ UNCHANGED tables
           ELSE /\ nextId <= MaxId
                /\ products' = With(products, nextId, ProductCreateData(body))
                /\ productCollections' = productCollections \cup JoinRows(nextId, ids)
                /\ nextId' = nextId + 1
                /\ Respond(p, request, 201, ProductCreateData(body))
                /\ UNCHANGED <<colors, styles, brands, collections, variants,
                               variantCollections>>

-----------------------------------------------------------------------------
(* Delete race specification: a color, a style, a brand, a collection and a *)
(* product, nothing referenced yet.  Each of two processes handles one      *)
(* request: a DELETE of the color, style, brand or collection, or a POST of *)
(* a variant or a product that may refer to one of them.                    *)

InitDeleteRace ==
    /\ colors = With(NoRows, 1, ColorRow(sTeal, JNull))
    /\ styles = With(NoRows, 1, StyleRow(sDenim, sSKINNY))
    /\ brands = With(NoRows, 1, BrandRow(sAcme, JNull))
    /\ collections = With(NoRows, 1, CollectionRow(sSale, JNull))
    /\ products = With(NoRows, 1, ProductRow(<<"p">>, sSku(1), 10, NullId))
    /\ variants = NoRows
    /\ productCollections = {} /\ variantCollections = {}
    /\ nextId = 2
    /\ req = NoRequests
    /\ res = NoResponses

RaceNewVariant(colorId, styleId, collectionIds) ==
    [stock |-> Undefined, sku |-> JStr(sSku(2)),
     variantId |-> JStr(sVariantId(2)), productId |-> 1,
     colorId |-> colorId, styleId |-> styleId,
     collectionIds |-> collectionIds, fullVariantName |-> JStr(<<"f">>), variantName |-> JStr(<<"v">>)]

\* a new variant of no color, of color 1, of style 1, and in collection 1
RaceNewVariants ==
    {RaceNewVariant(AbsentId, AbsentId, NoCollectionIds),
     RaceNewVariant(1, AbsentId, NoCollectionIds),
     RaceNewVariant(AbsentId, 1, NoCollectionIds),
     RaceNewVariant(AbsentId, AbsentId, CollectionIds(<<1>>))}

RaceNewProduct(slug, brandId, collectionIds) ==
    [slug |-> slug, sku |-> JStr(sSku(2)), price |-> JStr(<<"1","0">>), brandId |-> brandId,
     collectionIds |-> collectionIds, name |-> JStr(<<"n">>)]

\* a new product of no brand, of brand 1, and in collection 1
RaceNewProducts ==
    {RaceNewProduct(JStr(<<"q">>), AbsentId, NoCollectionIds),
     RaceNewProduct(JStr(<<"q">>), 1, NoCollectionIds),
     RaceNewProduct(JStr(<<"q">>), AbsentId, CollectionIds(<<1>>))}

RaceIds == {1, 2}

DeleteColorFindUniqueStep == \E p \in Procs, id \in RaceIds : DeleteColorFindUnique(p, id)
DeleteColorDeleteStep == \E p \in Procs : DeleteColorDelete(p)
DeleteStyleFindUniqueStep == \E p \in Procs, id \in RaceIds : DeleteStyleFindUnique(p, id)
DeleteStyleDeleteStep == \E p \in Procs : DeleteStyleDelete(p)
DeleteBrandFindUniqueStep == \E p \in Procs, id \in RaceIds : DeleteBrandFindUnique(p, id)
DeleteBrandDeleteStep == \E p \in Procs : DeleteBrandDelete(p)
DeleteCollectionFindUniqueStep ==
    \E p \in Procs, id \in RaceIds : DeleteCollectionFindUnique(p, id)
DeleteCollectionDeleteStep == \E p \in Procs : DeleteCollectionDelete(p)
PostVariantFindUniqueRaceStep ==
    \E p \in Procs, body \in RaceNewVariants : PostVariantFindUnique(p, body)
PostVariantCreateStep == \E p \in Procs : PostVariantCreate(p)
PostProductCreateRaceStep ==
    \E p \in Procs, body \in RaceNewProducts : PostProductCreate(p, body)

NextDeleteRace ==
    \/ DeleteColorFindUniqueStep
    \/ DeleteColorDeleteStep
    \/ DeleteStyleFindUniqueStep
    \/ DeleteStyleDeleteStep
    \/ DeleteBrandFindUniqueStep
    \/ DeleteBrandDeleteStep
    \/ DeleteCollectionFindUniqueStep
    \/ DeleteCollectionDeleteStep
    \/ PostVariantFindUniqueRaceStep
    \/ PostVariantCreateStep
    \/ PostProductCreateRaceStep

SpecDeleteRace == InitDeleteRace /\ [][NextDeleteRace]_vars

GuardedDeleteRoutes ==
    {"DELETE /colors/:id", "DELETE /styles/:id", "DELETE /brands/:id",
     "DELETE /collections/:id"}

\* process p issues the delete statement of a guarded DELETE in the step
DeleteIssued(p) ==
    /\ req[p].route \in GuardedDeleteRoutes
    /\ req[p].pc = "delete"
    /\ req'[p].pc = "done"

\* the rows that refer to the row a guarded DELETE addresses
ReferencesTo(request) ==
    CASE request.route = "DELETE /colors/:id" -> ColorVariants(request.id)
      [] request.route = "DELETE /styles/:id" -> StyleVariants(request.id)
      [] request.route = "DELETE /brands/:id" -> BrandProducts(request.id)
      [] request.route = "DELETE /collections/:id" ->
            CollectionProducts(request.id) \cup CollectionVariants(request.id)

\* the row a guarded DELETE addresses is in the store
RowPresent(request) ==
    CASE request.route = "DELETE /colors/:id" -> request.id \in DOMAIN colors
      [] request.route = "DELETE /styles/:id" -> request.id \in DOMAIN styles
      [] request.route = "DELETE /brands/:id" -> request.id \in DOMAIN brands
      [] request.route = "DELETE /collections/:id" -> request.id \in DOMAIN collections

\* C19: the delete guard and the delete statement are separate store calls: the
\* statement is issued on the count the guard read, zero, whatever refers to the
\* row by then.  Issued for a row that is referenced, it is carried out or refused
\* by the store (200 or 500), never answered 400 by the guard; issued for a row
\* that is in the store and not referenced it is carried out.
C19_DeleteIssuedOnStaleGuard ==
    [][\A p \in Procs :
          DeleteIssued(p)
          => /\ req[p].count = 0
             /\ res'[p].status \in {200, 500}
             /\ RowPresent(req[p]) /\ ReferencesTo(req[p]) = {} => res'[p].status = 200]_vars

\* the guard of DELETE /colors/1 read zero references, POST /variants then created
\* a variant of color 1, and the delete statement was issued and carried out
C19_Witness ==
    /\ Done(1) /\ req[1].route = "DELETE /colors/:id" /\ req[1].id = 1
    /\ res[1].status = 200
    /\ req[1].count = 0
    /\ Done(2) /\ req[2].route = "POST /variants" /\ req[2].body.colorId = 1
    /\ res[2].status = 201
    /\ 1 \notin DOMAIN colors
    /\ \E v \in DOMAIN variants : variants[v].variantId = sVariantId(2)

-----------------------------------------------------------------------------
(* POST /colors, /styles, /brands, /collections and the two bulk routes     *)
(* among concurrent requests: each is the handler's checks and one store    *)
(* call, create or createMany.                                              *)

\* what the handler answers before its store call: 400, 500, or 0 when it goes on
\* to create
PostColorChecks(body) ==
    IF Falsy(body.name) THEN 400
    ELSE IF TrimThrows(body.name) \/ TrimThrows(body.hexCode) THEN 500
    ELSE 0

PostStyleChecks(body) ==
    IF Falsy(body.name) \/ Falsy(body.fitType) THEN 400
    ELSE IF body.fitType.t # "string" THEN 500
    ELSE IF ToUpperCase(body.fitType.s) \notin validFitTypes THEN 400
    ELSE IF TrimThrows(body.name) THEN 500
    ELSE 0

PostBrandChecks(body) ==
    IF Falsy(body.name) THEN 400
    ELSE IF TrimThrows(body.name) \/ TrimThrows(body.logo) THEN 500
    ELSE 0

PostCollectionChecks(body) ==
    IF Falsy(body.name) THEN 400
    ELSE IF TrimThrows(body.name) \/ TrimThrows(body.description) THEN 500
    ELSE 0

\* the same create on a table without the unique constraint
CreateIgnoringNames(p, request, checks, table, tableAfter, row, others) ==
    /\ Idle(p)
    /\ IF checks # 0
       THEN Respond(p, request, checks, NoData) /\ UNCHANGED tables
       ELSE /\ nextId <= MaxId
            /\ tableAfter = With(table, nextId, row)
            /\ nextId' = nextId + 1
            /\ Respond(p, request, 201, row)
            /\ UNCHANGED others

\* create on a name table whose rows after the step are tableAfter: P2002 is
\* answered 400
Create(p, request, checks, table, tableAfter, row, others) ==
    /\ Idle(p)
    /\ IF checks # 0
       THEN Respond(p, request, checks, NoData) /\ UNCHANGED tables
       ELSE IF NameTaken(table, row.name)
       THEN Respond(p, request, 400, NoData) /\ UNCHANGED tables
       ELSE /\ nextId <= MaxId
            /\ tableAfter = With(table, nextId, row)
            /\ nextId' = nextId + 1
            /\ Respond(p, request, 201, row)
            /\ UNCHANGED others

PostColorCreate(p, body) ==
    Create(p, [body |-> body, route |-> "POST /colors", pc |-> "create"],
           PostColorChecks(body), colors, colors', ColorCreateData(body),
           <<styles, brands, collections, products, variants,
             productCollections, variantCollections>>)

PostStyleCreate(p, body) ==
    Create(p, [body |-> body, route |-> "POST /styles", pc |-> "create"],
           PostStyleChecks(body), styles, styles', StyleCreateData(body),
           <<colors, brands, collections, products, variants,
             productCollections, variantCollections>>)

PostBrandCreate(p, body) ==
    Create(p, [body |-> body, route |-> "POST /brands", pc |-> "create"],
           PostBrandChecks(body), brands, brands', BrandCreateData(body),
           <<colors, styles, collections, products, variants,
             productCollections, variantCollections>>)

PostCollectionCreate(p, body) ==
    Create(p, [body |-> body, route |-> "POST /collections", pc |-> "create"],
           PostCollectionChecks(body), collections, collections',
           CollectionCreateData(body),
           <<colors, styles, brands, products, variants,
             productCollections, variantCollections>>)

\* what the bulk handler answers before createMany, or 0
BulkColorsChecks(body) ==
    IF ~body.colors.isArray \/ Len(body.colors.items) = 0 THEN 400
    ELSE IF \E i \in 1..Len(body.colors.items) : ColorEntryThrows(body.colors.items[i])
    THEN 500
    ELSE IF Len(SelectSeq(body.colors.items, ColorEntryValid)) = 0 THEN 400
    ELSE IF \E i \in 1..Len(body.colors.items) :
               /\ ColorEntryValid(body.colors.items[i])
               /\ TrimThrows(body.colors.items[i].hexCode)
    THEN 500
    ELSE 0

BulkColorsCreateMany(p, body) ==
    LET request == [body |-> body, route |-> "POST /colors/bulk", pc |-> "createMany"]
        validColors == SelectSeq(body.colors.items, ColorEntryValid)
        createdColors ==
            CreateManySkipDuplicates(
                colors, [i \in 1..Len(validColors) |-> ColorCreateData(validColors[i])],
                nextId)
    IN  /\ Idle(p)
        /\ IF BulkColorsChecks(body) # 0
           THEN Respond(p, request, BulkColorsChecks(body), NoData) /\ UNCHANGED tables
           ELSE /\ createdColors.nextId <= MaxId + 1
                /\ colors' = createdColors.table
                /\ nextId' = createdColors.nextId
                /\ Respond(p, request, 201, [count |-> createdColors.count])
                /\ UNCHANGED <<styles, brands, collections, products, variants,
                               productCollections, variantCollections>>

BulkStylesChecks(body) ==
    IF ~body.styles.isArray \/ Len(body.styles.items) = 0 THEN 400
    ELSE IF \E i \in 1..Len(body.styles.items) : StyleEntryThrows(body.styles.items[i])
    THEN 500
    ELSE IF Len(SelectSeq(body.styles.items, StyleEntryValid)) = 0 THEN 400
    ELSE 0

BulkStylesCreateMany(p, body) ==
    LET request == [body |-> body, route |-> "POST /styles/bulk", pc |-> "createMany"]
        validStyles == SelectSeq(body.styles.items, StyleEntryValid)
        createdStyles ==
            CreateManySkipDuplicates(
                styles, [i \in 1..Len(validStyles) |-> StyleCreateData(validStyles[i])],
                nextId)
    IN  /\ Idle(p)
        /\ IF BulkStylesChecks(body) # 0
           THEN Respond(p, request, BulkStylesChecks(body), NoData) /\ UNCHANGED tables
           ELSE /\ createdStyles.nextId <= MaxId + 1
                /\ styles' = createdStyles.table
                /\ nextId' = createdStyles.nextId
                /\ Respond(p, request, 201, [count |-> createdStyles.count])
                /\ UNCHANGED <<colors, brands, collections, products, variants,
                               productCollections, variantCollections>>

-----------------------------------------------------------------------------
(* PUT /:id of the six routers among concurrent requests: findUnique and    *)
(* the code that builds the update's data, then update; for products and    *)
(* variants then deleteMany and createMany of the join rows when the body   *)
(* carries collectionIds.  The findUnique that reads the row again for the  *)
(* response of a product or variant PUT changes nothing and is not a step.  *)

\* findUnique, 404 without a row; then what building updateData answers (500 for a
\* TypeError, 400 for a fitType that is not valid), or 0
PutFindUnique(p, request, table, checks) ==
    /\ Idle(p)
    /\ UNCHANGED tables
    /\ IF request.id \notin DOMAIN table
       THEN Respond(p, request, 404, NoData)
       ELSE IF checks # 0
       THEN Respond(p, request, checks, NoData)
       ELSE Proceed(p, [request EXCEPT !.pc = "update"])

PutRequest(route, id, body) == [id |-> id, body |-> body, route |-> route, pc |-> "findUnique"]

PutColorChecks(body) ==
    IF (body.name # Undefined /\ MethodThrows(body.name)) \/ TrimThrows(body.hexCode)
    THEN 500 ELSE 0

PutStyleChecks(body) ==
    IF body.name # Undefined /\ MethodThrows(body.name) THEN 500
    ELSE IF body.fitType # Undefined /\ MethodThrows(body.fitType) THEN 500
    ELSE IF body.fitType # Undefined /\ ToUpperCase(body.fitType.s) \notin validFitTypes
    THEN 400
    ELSE 0

PutBrandChecks(body) ==
    IF (body.name # Undefined /\ MethodThrows(body.name)) \/ TrimThrows(body.logo)
    THEN 500 ELSE 0

PutCollectionChecks(body) ==
    IF (body.name # Undefined /\ MethodThrows(body.name)) \/ TrimThrows(body.description)
    THEN 500 ELSE 0

PutColorFindUnique(p, id, body) ==
    PutFindUnique(p, PutRequest("PUT /colors/:id", id, body), colors, PutColorChecks(body))
PutStyleFindUnique(p, id, body) ==
    PutFindUnique(p, PutRequest("PUT /styles/:id", id, body), styles, PutStyleChecks(body))
PutBrandFindUnique(p, id, body) ==
    PutFindUnique(p, PutRequest("PUT /brands/:id", id, body), brands, PutBrandChecks(body))
PutCollectionFindUnique(p, id, body) ==
    PutFindUnique(p, PutRequest("PUT /collections/:id", id, body), collections,
                  PutCollectionChecks(body))
PutProductFindUnique(p, id, body) ==
    PutFindUnique(p, PutRequest("PUT /products/:id", id, body), products, 0)
PutVariantFindUnique(p, id, body) ==
    PutFindUnique(p, PutRequest("PUT /variants/:id", id, body), variants, 0)

StyleUpdated(existing, body) ==
    [existing EXCEPT
        !.name = IF body.name = Undefined THEN @ ELSE Trim(body.name.s),
        !.fitType = IF body.fitType = Undefined THEN @ ELSE ToUpperCase(body.fitType.s)]

\* update on a name table: P2025, the row is gone, is answered 500 and P2002 400
Update(p, route, table, tableAfter, updated, others) ==
    LET request == req[p]
    IN  /\ At(p, route, "update")
        /\ IF request.id \notin DOMAIN table
           THEN Respond(p, request, 500, NoData) /\ UNCHANGED tables
           ELSE IF NameTakenByOther(table, request.id, updated.name)
           THEN Respond(p, request, 400, NoData) /\ UNCHANGED tables
           ELSE /\ tableAfter = [table EXCEPT ![request.id] = updated]
                /\ Respond(p, request, 200, updated)
                /\ UNCHANGED others
                /\ UNCHANGED nextId

PutColorUpdate(p) ==
    Update(p, "PUT /colors/:id", colors, colors',
           ColorUpdated(colors[req[p].id], req[p].body),
           <<styles, brands, collections, products, variants,
             productCollections, variantCollections>>)

PutStyleUpdate(p) ==
    Update(p, "PUT /styles/:id", styles, styles',
           StyleUpdated(styles[req[p].id], req[p].body),
           <<colors, brands, collections, products, variants,
             productCollections, variantCollections>>)

PutBrandUpdate(p) ==
    Update(p, "PUT /brands/:id", brands, brands',
           BrandUpdated(brands[req[p].id], req[p].body),
           <<colors, styles, collections, products, variants,
             productCollections, variantCollections>>)

PutCollectionUpdate(p) ==
    Update(p, "PUT /collections/:id", collections, collections',
           CollectionUpdated(collections[req[p].id], req[p].body),
           <<colors, styles, brands, products, variants,
             productCollections, variantCollections>>)

ProductUpdated(existing, body) ==
    [existing EXCEPT
        !.slug = IF body.slug = Undefined THEN @ ELSE body.slug.s,
        !.sku = IF body.sku = Undefined THEN @ ELSE body.sku.s,
        !.brandId = IF body.brandId = AbsentId THEN @ ELSE body.brandId]

VariantUpdated(existing, body) ==
    [existing EXCEPT
        !.variantId = IF body.variantId = Undefined THEN @ ELSE body.variantId.s,
        !.sku = IF body.sku = Undefined THEN @ ELSE body.sku.s,
        !.colorId = IF body.colorId = AbsentId THEN @ ELSE body.colorId,
        !.styleId = IF body.styleId = AbsentId THEN @ ELSE body.styleId]

\* after update: the join rows are replaced when the body carries collectionIds
AfterUpdate(p, request, updated) ==
    IF request.body.collectionIds.given
    THEN Proceed(p, [request EXCEPT !.pc = "deleteMany"] @@ [updated |-> updated])
    ELSE Respond(p, request, 200, updated)

PutProductUpdate(p) ==
    LET request == req[p]
        updated == ProductUpdated(products[request.id], request.body)
    IN  /\ At(p, "PUT /products/:id", "update")
        /\ IF request.id \notin DOMAIN products
           THEN Respond(p, request, 500, NoData) /\ UNCHANGED tables
           ELSE IF ProductUniqueViolation(request.id, updated.slug, updated.sku)
           THEN Respond(p, request, 400, NoData) /\ UNCHANGED tables
           ELSE IF \/ ForeignKeyViolation(request.body.brandId, brands)
                   \/ NestedBrandMissing(request.body, updated.brandId)
           THEN Respond(p, request, 500, NoData) /\ UNCHANGED tables
           ELSE IF NestedBrandTaken(request.body, updated.brandId)
           THEN Respond(p, request, 400, NoData) /\ UNCHANGED tables
           ELSE /\ products' = [products EXCEPT ![request.id] = updated]
                /\ brands' = BrandsAfterUpdate(request.body, updated.brandId)
                /\ AfterUpdate(p, request, updated)
                /\ UNCHANGED <<colors, styles, collections, variants,
                               productCollections, variantCollections, nextId>>

PutVariantUpdate(p) ==
    LET request == req[p]
        updated == VariantUpdated(variants[request.id], request.body)
    IN  /\ At(p, "PUT /variants/:id", "update")
        /\ IF request.id \notin DOMAIN variants
           THEN Respond(p, request, 500, NoData) /\ UNCHANGED tables
           ELSE IF VariantUniqueViolation(request.id, updated.variantId, updated.sku)
           THEN Respond(p, request, 400, NoData) /\ UNCHANGED tables
           ELSE IF \/ ForeignKeyViolation(request.body.colorId, colors)
                   \/ ForeignKeyViolation(request.body.styleId, styles)
           THEN Respond(p, request, 500, NoData) /\ UNCHANGED tables
           ELSE /\ variants' = [variants EXCEPT ![request.id] = updated]
                /\ AfterUpdate(p, request, updated)
                /\ UNCHANGED <<colors, styles, brands, collections, products,
                               productCollections, variantCollections, nextId>>

\* deleteMany of the parent's join rows; createMany follows when collectionIds is
\* not empty
DeleteManyJoinRows(p, route, rows, rowsAfter, others) ==
    LET request == req[p]
    IN  /\ At(p, route, "deleteMany")
        /\ rowsAfter = ReplaceJoinRows(rows, request.id, <<>>)
        /\ UNCHANGED others
        /\ IF Len(request.body.collectionIds.ids) > 0
           THEN Proceed(p, [request EXCEPT !.pc = "createMany"])
           ELSE Respond(p, request, 200, request.updated)

\* createMany of the join rows: a collection or a parent that is not in the store
\* is a foreign key violation, answered 500.  A join row that a concurrent request
\* has inserted already is inserted again or, when the join table's key forbids
\* it, refused with P2002, answered 400; both outcomes are kept.
CreateManyJoinRows(p, route, parents, rows, rowsAfter, others) ==
    LET request == req[p]
        ids == request.body.collectionIds.ids
    IN  /\ At(p, route, "createMany")
        /\ IF \/ request.id \notin DOMAIN parents
              \/ \E c \in Range(ids) : c \notin DOMAIN collections
           THEN Respond(p, request, 500, NoData) /\ UNCHANGED tables
           ELSE \/ /\ rowsAfter = rows \cup JoinRows(request.id, ids)
                   /\ Respond(p, request, 200, request.updated)
                   /\ UNCHANGED others
                \/ /\ rows \cap JoinRows(request.id, ids) # {}
                   /\ Respond(p, request, 400, NoData)
                   /\ UNCHANGED tables

PutProductDeleteMany(p) ==
    DeleteManyJoinRows(p, "PUT /products/:id", productCollections, productCollections',
                       <<colors, styles, brands, collections, products, variants,
                         variantCollections, nextId>>)
PutProductCreateMany(p) ==
    CreateManyJoinRows(p, "PUT /products/:id", products, productCollections,
                       productCollections',
                       <<colors, styles, brands, collections, products, variants,
                         variantCollections, nextId>>)
PutVariantDeleteMany(p) ==
    DeleteManyJoinRows(p, "PUT /variants/:id", variantCollections, variantCollections',
                       <<colors, styles, brands, collections, products, variants,
                         productCollections, nextId>>)
PutVariantCreateMany(p) ==
    CreateManyJoinRows(p, "PUT /variants/:id", variants, variantCollections,
                       variantCollections',
                       <<colors, styles, brands, collections, products, variants,
                         productCollections, nextId>>)

-----------------------------------------------------------------------------
(* Write race specification: two rows in every table.  Each of two          *)
(* processes handles one request that creates, updates or bulk-creates.     *)

RaceRows == {1, 2}

InitWriteRace ==
    /\ colors = With(With(NoRows, 1, ColorRow(sTeal, JNull)), 2, ColorRow(sRed, JNull))
    /\ styles = With(With(NoRows, 1, StyleRow(sDenim, sSKINNY)), 2, StyleRow(sRed, sCLASSIC))
    /\ brands = With(With(NoRows, 1, BrandRow(sAcme, JNull)), 2, BrandRow(sSale, JNull))
    /\ collections = With(With(NoRows, 1, CollectionRow(sSale, JNull)),
                          2, CollectionRow(sDenim, JNull))
    /\ products = With(With(NoRows, 1, ProductRow(<<"p">>, sSku(1), 10, NullId)),
                       2, ProductRow(<<"q">>, sSku(2), 10, NullId))
    /\ variants = With(With(NoRows, 1, VariantRow(sVariantId(1), sSku(1), 0, 1, NullId, NullId)),
                       2, VariantRow(sVariantId(2), sSku(2), 0, 1, NullId, NullId))
    /\ productCollections = {} /\ variantCollections = {}
    /\ nextId = 3
    /\ req = NoRequests
    /\ res = NoResponses

\* a new name, with and without white space around it
NewNames == {JStr(sNavy), JStr(sNavyPadded)}

WriteNewProduct(slug, sku) ==
    [slug |-> slug, sku |-> sku, price |-> JStr(<<"1","0">>), brandId |-> AbsentId,
     collectionIds |-> NoCollectionIds, name |-> JStr(<<"n">>)]

\* new products that share a slug, a sku or both, and one with the slug of a row
WriteNewProducts ==
    {WriteNewProduct(JStr(<<"r">>), JStr(sSku(3))),
     WriteNewProduct(JStr(<<"r">>), JStr(sSku(4))),
     WriteNewProduct(JStr(<<"s">>), JStr(sSku(3))),
     WriteNewProduct(JStr(<<"p">>), JStr(sSku(4)))}

WriteNewVariant(variantId, sku) ==
    [stock |-> Undefined, sku |-> sku, variantId |-> variantId, productId |-> 1,
     colorId |-> AbsentId, styleId |-> AbsentId,
     collectionIds |-> NoCollectionIds, fullVariantName |-> JStr(<<"f">>), variantName |-> JStr(<<"v">>)]

WriteNewVariants ==
    {WriteNewVariant(JStr(sVariantId(3)), JStr(sSku(3))),
     WriteNewVariant(JStr(sVariantId(3)), JStr(sSku(4))),
     WriteNewVariant(JStr(sVariantId(4)), JStr(sSku(3)))}

\* the slug or sku of a new product, or collectionIds
WriteProductPutBodies ==
    {ProductPutBody(JStr(<<"r">>), Undefined, NoCollectionIds),
     ProductPutBody(Undefined, JStr(sSku(3)), NoCollectionIds),
     ProductPutBody(Undefined, Undefined, CollectionIds(<<1>>)),
     ProductPutBody(Undefined, Undefined, CollectionIds(<<>>))}

WriteVariantPutBodies ==
    {VariantPutBody(JStr(sVariantId(3)), Undefined, NoCollectionIds),
     VariantPutBody(Undefined, JStr(sSku(3)), NoCollectionIds),
     VariantPutBody(Undefined, Undefined, CollectionIds(<<1>>)),
     VariantPutBody(Undefined, Undefined, CollectionIds(<<>>))}

PostColorCreateStep ==
    \E p \in Procs, name \in NewNames \cup {JStr(sTeal)} :
        PostColorCreate(p, [name |-> name, hexCode |-> Undefined])
PostStyleCreateStep ==
    \E p \in Procs, name \in NewNames :
        PostStyleCreate(p, [name |-> name, fitType |-> JStr(sSkinnyLower)])
PostBrandCreateStep ==
    \E p \in Procs, name \in NewNames : PostBrandCreate(p, [name |-> name, logo |-> Undefined])
PostCollectionCreateStep ==
    \E p \in Procs, name \in NewNames :
        PostCollectionCreate(p, [name |-> name, description |-> Undefined])
PostProductCreateStep ==
    \E p \in Procs, body \in WriteNewProducts : PostProductCreate(p, body)
PostVariantFindUniqueStep ==
    \E p \in Procs, body \in WriteNewVariants : PostVariantFindUnique(p, body)
BulkColorsCreateManyStep ==
    \E p \in Procs, names \in {<<JStr(sNavy)>>, <<JStr(sNavyPadded), JStr(sNavy)>>} :
        BulkColorsCreateMany(p, [colors |-> Array([i \in 1..Len(names) |-> ColorEntry(names[i])])])
BulkStylesCreateManyStep ==
    \E p \in Procs, names \in {<<JStr(sNavy)>>, <<JStr(sNavyPadded), JStr(sNavy)>>} :
        BulkStylesCreateMany(
            p, [styles |-> Array([i \in 1..Len(names) |->
                                     StyleEntry(names[i], JStr(sSkinnyLower))])])
PutColorFindUniqueStep ==
    \E p \in Procs, id \in RaceRows :
        PutColorFindUnique(p, id, [name |-> JStr(sNavy), hexCode |-> Undefined])
PutStyleFindUniqueStep ==
    \E p \in Procs, id \in RaceRows :
        PutStyleFindUnique(p, id, [name |-> JStr(sNavy), fitType |-> Undefined])
PutBrandFindUniqueStep ==
    \E p \in Procs, id \in RaceRows :
        PutBrandFindUnique(p, id, [name |-> JStr(sNavy), logo |-> Undefined])
PutCollectionFindUniqueStep ==
    \E p \in Procs, id \in RaceRows :
        PutCollectionFindUnique(p, id, [name |-> JStr(sNavy), description |-> Undefined])
PutProductFindUniqueStep ==
    \E p \in Procs, id \in RaceRows, body \in WriteProductPutBodies :
        PutProductFindUnique(p, id, body)
PutVariantFindUniqueStep ==
    \E p \in Procs, id \in RaceRows, body \in WriteVariantPutBodies :
        PutVariantFindUnique(p, id, body)
PutColorUpdateStep == \E p \in Procs : PutColorUpdate(p)
PutStyleUpdateStep == \E p \in Procs : PutStyleUpdate(p)
PutBrandUpdateStep == \E p \in Procs : PutBrandUpdate(p)
PutCollectionUpdateStep == \E p \in Procs : PutCollectionUpdate(p)
PutProductUpdateStep == \E p \in Procs : PutProductUpdate(p)
PutProductDeleteManyStep == \E p \in Procs : PutProductDeleteMany(p)
PutProductCreateManyStep == \E p \in Procs : PutProductCreateMany(p)
PutVariantUpdateStep == \E p \in Procs : PutVariantUpdate(p)
PutVariantDeleteManyStep == \E p \in Procs : PutVariantDeleteMany(p)
PutVariantCreateManyStep == \E p \in Procs : PutVariantCreateMany(p)

NextWriteRace ==
    \/ PostColorCreateStep
    \/ PostStyleCreateStep
    \/ PostBrandCreateStep
    \/ PostCollectionCreateStep
    \/ PostProductCreateStep
    \/ PostVariantFindUniqueStep
    \/ PostVariantCreateStep
    \/ BulkColorsCreateManyStep
    \/ BulkStylesCreateManyStep
    \/ PutColorFindUniqueStep
    \/ PutColorUpdateStep
    \/ PutStyleFindUniqueStep
    \/ PutStyleUpdateStep
    \/ PutBrandFindUniqueStep
    \/ PutBrandUpdateStep
    \/ PutCollectionFindUniqueStep
    \/ PutCollectionUpdateStep
    \/ PutProductFindUniqueStep
    \/ PutProductUpdateStep
    \/ PutProductDeleteManyStep
    \/ PutProductCreateManyStep
    \/ PutVariantFindUniqueStep
    \/ PutVariantUpdateStep
    \/ PutVariantDeleteManyStep
    \/ PutVariantCreateManyStep

SpecWriteRace == InitWriteRace /\ [][NextWriteRace]_vars

\* no two rows of the table hold the same value in the column
UniqueColumn(table, column) ==
    \A a \in DOMAIN table, b \in DOMAIN table : a # b => table[a][column] # table[b][column]

CreateRoutes ==
    {"POST /colors", "POST /styles", "POST /brands", "POST /collections",
     "POST /products", "POST /variants"}

\* the table a create inserts into
CreateTable(route) ==
    CASE route = "POST /colors" -> colors
      [] route = "POST /styles" -> styles
      [] route = "POST /brands" -> brands
      [] route = "POST /collections" -> collections
      [] route = "POST /products" -> products
      [] route = "POST /variants" -> variants

\* the unique values a create carries, as the handler stores them: column and value
UniqueValues(request) ==
    CASE request.route = "POST /products" ->
            {<<"slug", Trim(request.body.slug.s)>>, <<"sku", Trim(request.body.sku.s)>>}
      [] request.route = "POST /variants" ->
            {<<"variantId", Trim(request.body.variantId.s)>>,
             <<"sku", Trim(request.body.sku.s)>>}
      [] OTHER -> {<<"name", Trim(request.body.name.s)>>}

\* a row that was in the store before the two requests holds the value
HeldBefore(route, value) ==
    \E r \in RaceRows \cap DOMAIN CreateTable(route) :
        CreateTable(route)[r][value[1]] = value[2]

\* the two processes have handled creates on the same route that carry a common
\* unique value
SameValueCreated ==
    /\ Done(1) /\ Done(2)
    /\ req[1].route \in CreateRoutes
    /\ req[2].route = req[1].route
    /\ UniqueValues(req[1]) \cap UniqueValues(req[2]) # {}

\* C15: in every state reachable by interleaving create, update and bulk-create
\* requests no two Products share a slug or a sku, no two Variants a variantId or a
\* sku, and no two Colors, Styles, Brands or Collections a name; of two concurrent
\* creates that carry the same unique value, none of their values being held
\* already, exactly one responds 201 and the other 400, and never both 201.
C15_UniqueUnderInterleaving ==
    /\ UniqueColumn(products, "slug") /\ UniqueColumn(products, "sku")
    /\ UniqueColumn(variants, "variantId") /\ UniqueColumn(variants, "sku")
    /\ UniqueColumn(colors, "name") /\ UniqueColumn(styles, "name")
    /\ UniqueColumn(brands, "name") /\ UniqueColumn(collections, "name")
    /\ SameValueCreated
       => /\ {res[1].status, res[2].status} \in {{201, 400}, {400}}
          /\ (\A value \in UniqueValues(req[1]) \cup UniqueValues(req[2]) :
                 ~HeldBefore(req[1].route, value))
             => {res[1].status, res[2].status} = {201, 400}

\* POST /colors with "Navy" and with " Navy ": the second has inserted the row, the
\* first was answered 400
C15_Witness ==
    /\ Done(1) /\ req[1].route = "POST /colors" /\ req[1].body.name = JStr(sNavy)
    /\ Done(2) /\ req[2].route = "POST /colors" /\ req[2].body.name = JStr(sNavyPadded)
    /\ res[1].status = 400
    /\ res[2].status = 201
    /\ Cardinality({r \in DOMAIN colors : colors[r].name = sNavy}) = 1

-----------------------------------------------------------------------------
(* Join race specification: the store of the Write race specification.      *)
(* Each of two processes handles one PUT on a product or on a variant whose *)
(* body carries collectionIds.                                              *)

JoinRaceCollectionIds ==
    {CollectionIds(<<1>>), CollectionIds(<<2>>), CollectionIds(<<1, 2>>), CollectionIds(<<>>)}

PutProductJoinRaceStep ==
    \E p \in Procs, id \in RaceRows, collectionIds \in JoinRaceCollectionIds :
        PutProductFindUnique(p, id, ProductPutBody(Undefined, Undefined, collectionIds))
PutVariantJoinRaceStep ==
    \E p \in Procs, id \in RaceRows, collectionIds \in JoinRaceCollectionIds :
        PutVariantFindUnique(p, id, VariantPutBody(Undefined, Undefined, collectionIds))

NextJoinRace ==
    \/ PutProductJoinRaceStep
    \/ PutProductUpdateStep
    \/ PutProductDeleteManyStep
    \/ PutProductCreateManyStep
    \/ PutVariantJoinRaceStep
    \/ PutVariantUpdateStep
    \/ PutVariantDeleteManyStep
    \/ PutVariantCreateManyStep

SpecJoinRace == InitWriteRace /\ [][NextJoinRace]_vars

\* both processes have answered success to a PUT on route that carries
\* collectionIds, for the same parent
BothReplaced(route) ==
    /\ Done(1) /\ Done(2)
    /\ req[1].route = route /\ req[2].route = route
    /\ req[1].id = req[2].id
    /\ req[1].body.collectionIds.given /\ req[2].body.collectionIds.given
    /\ res[1].success /\ res[2].success

\* the join rows of the parent are those of one of the two requests
OneOfTwo(rows) ==
    LET own == {r \in rows : r[1] = req[1].id}
    IN  \/ own = JoinRows(req[1].id, req[1].body.collectionIds.ids)
        \/ own = JoinRows(req[2].id, req[2].body.collectionIds.ids)

\* C21: when two concurrent PUTs on the same Product, or on the same Variant, that
\* supply collectionIds A and B have both responded success, the parent's join
\* rows are exactly those of A or exactly those of B.
C21_JoinRowsOneOfTwo ==
    /\ BothReplaced("PUT /products/:id") => OneOfTwo(productCollections)
    /\ BothReplaced("PUT /variants/:id") => OneOfTwo(variantCollections)

-----------------------------------------------------------------------------
(* Failed updates of products and variants, under the Update specification. *)

\* the step handled a PUT on a product or a variant and answered an error
PutFailed ==
    /\ PutStep("PUT /products/:id") \/ PutStep("PUT /variants/:id")
    /\ res'.status \in {400, 404, 500}

\* C22: a PUT on a Product or Variant that responds with an error (400, 404 or
\* 500) leaves the store as it was before the request: the parent's previous join
\* rows and previous field values are still in place.
C22_FailedPutLeavesStore ==
    [][PutFailed => UNCHANGED tables]_vars

-----------------------------------------------------------------------------
(* The stock of every variant, under the Stock specification. *)

\* C23: in every state reachable from non-negative stocks by PATCH
\* /variants/:id/stock requests with operation set, add or subtract and any
\* integer stock value, every variant's stock is greater than or equal to zero.
C23_StockNeverNegative ==
    \A v \in DOMAIN variants : variants[v].stock >= 0

-----------------------------------------------------------------------------
(* DELETE /variants/:id and DELETE /products/:id, one store call at a time *)

DeleteVariantFindUnique(p, id) ==
    LET request == [id |-> id, route |-> "DELETE /variants/:id", pc |-> "findUnique"]
    IN  /\ Idle(p)
        /\ UNCHANGED tables
        /\ IF id \notin DOMAIN variants
           THEN Respond(p, request, 404, NoData)
           ELSE Proceed(p, [request EXCEPT !.pc = "delete"])

\* prisma.productVariant.delete: P2025, the row is gone, is answered 500 by the catch
DeleteVariantDelete(p) ==
    LET request == req[p]
    IN  /\ At(p, "DELETE /variants/:id", "delete")
        /\ IF request.id \notin DOMAIN variants
           THEN Respond(p, request, 500, NoData) /\ UNCHANGED tables
           ELSE \/ /\ variants' = Without(variants, request.id)
                   /\ variantCollections' = variantCollections \ VariantJoinRows(request.id)
                   /\ Respond(p, request, 200, NoData)
                   /\ UNCHANGED <<colors, styles, brands, collections, products,
                                  productCollections, nextId>>
                \/ /\ VariantJoinRows(request.id) # {}
                   /\ Respond(p, request, 500, NoData)
                   /\ UNCHANGED tables

DeleteProductFindUnique(p, id) ==
    LET request == [id |-> id, route |-> "DELETE /products/:id", pc |-> "findUnique"]
    IN  /\ Idle(p)
        /\ UNCHANGED tables
        /\ IF id \notin DOMAIN products
           THEN Respond(p, request, 404, NoData)
           ELSE Proceed(p, [request EXCEPT !.pc = "delete"])

\* prisma.product.delete
DeleteProductDelete(p) ==
    LET request == req[p]
        id == request.id
    IN  /\ At(p, "DELETE /products/:id", "delete")
        /\ IF id \notin DOMAIN products
           THEN Respond(p, request, 500, NoData) /\ UNCHANGED tables
           ELSE \/ /\ products' = Without(products, id)
                   /\ productCollections' = productCollections \ ProductJoinRows(id)
                   /\ variants' = [v \in DOMAIN variants \ ProductVariants(id) |-> variants[v]]
                   /\ variantCollections' =
                         {r \in variantCollections : r[1] \notin ProductVariants(id)}
                   /\ Respond(p, request, 200, NoData)
                   /\ UNCHANGED <<colors, styles, brands, collections, nextId>>
                \/ /\ ProductJoinRows(id) # {} \/ ProductVariants(id) # {}
                   /\ Respond(p, request, 500, NoData)
                   /\ UNCHANGED tables

-----------------------------------------------------------------------------
(* Row race specification: the store of the Write race specification, whose *)
(* second product has no variants.  Each of two processes handles one       *)
(* DELETE, PUT or stock PATCH on a variant, or one DELETE or PUT on the     *)
(* second product.                                                          *)

RowRaceProducts == {2}

DeleteVariantFindUniqueStep ==
    \E p \in Procs, id \in RaceRows : DeleteVariantFindUnique(p, id)
DeleteVariantDeleteStep == \E p \in Procs : DeleteVariantDelete(p)
DeleteProductFindUniqueStep ==
    \E p \in Procs, id \in RowRaceProducts : DeleteProductFindUnique(p, id)
DeleteProductDeleteStep == \E p \in Procs : DeleteProductDelete(p)
StockFindUniqueRowStep ==
    \E p \in Procs, id \in RaceRows :
        StockFindUnique(p, id, [operation |-> JStr(sAdd), stock |-> JNum(1)])
PutVariantFindUniqueRowStep ==
    \E p \in Procs, id \in RaceRows :
        PutVariantFindUnique(p, id, VariantPutBody(Undefined, Undefined, NoCollectionIds))
PutProductFindUniqueRowStep ==
    \E p \in Procs, id \in RowRaceProducts :
        PutProductFindUnique(p, id, ProductPutBody(Undefined, Undefined, NoCollectionIds))

NextRowRace ==
    \/ DeleteVariantFindUniqueStep
    \/ DeleteVariantDeleteStep
    \/ DeleteProductFindUniqueStep
    \/ DeleteProductDeleteStep
    \/ StockFindUniqueRowStep
    \/ StockUpdateStep
    \/ PutVariantFindUniqueRowStep
    \/ PutVariantUpdateStep
    \/ PutProductFindUniqueRowStep
    \/ PutProductUpdateStep

SpecRowRace == InitWriteRace /\ [][NextRowRace]_vars

ProductRoutes == {"DELETE /products/:id", "PUT /products/:id"}

\* the two requests are on the same row: both on a product or both on a variant,
\* with the same id
SameRow ==
    /\ ~Idle(1) /\ ~Idle(2)
    /\ (req[1].route \in ProductRoutes) = (req[2].route \in ProductRoutes)
    /\ req[1].id = req[2].id

\* C24: when two requests that target the same row race (DELETE with DELETE, or
\* DELETE with PUT or with PATCH stock), each of them responds either with success
\* or with 404, never with a 500 because the row was removed in between.
C24_RaceAnswersSuccessOrNotFound ==
    SameRow => \A p \in Procs : Done(p) => res[p].status \in {200, 404}

-----------------------------------------------------------------------------
(* The pages of the Colors, Styles, Brands and Collections lists, under the *)
(* List specification.                                                      *)

NameListRoutes == {"GET /colors", "GET /styles", "GET /brands", "GET /collections"}

\* the ids of the rows that match the filter of the step's request
MatchingIds ==
    CASE req'.route = "GET /colors" ->
            {r \in DOMAIN colors : NameWhere(req'.query, colors[r])}
      [] req'.route = "GET /styles" ->
            {r \in DOMAIN styles : StyleWhere(req'.query, styles[r])}
      [] req'.route = "GET /brands" ->
            {r \in DOMAIN brands : NameWhere(req'.query, brands[r])}
      [] req'.route = "GET /collections" ->
            {r \in DOMAIN collections : CollectionWhere(req'.query, collections[r])}

\* the items of pages 1 to n, as the handler answers them for the page size limit
RECURSIVE ConcatPages(_, _, _)
ConcatPages(n, limit, matching) ==
    IF n = 0 THEN <<>>
    ELSE ConcatPages(n - 1, limit, matching)
         \o ListPage(JStr(NatToString(n)), limit, matching).data

\* every id of ids is in items exactly once and nothing else is
ExactlyOnce(items, ids) ==
    /\ {items[i].id : i \in 1..Len(items)} = ids
    /\ Len(items) = Cardinality(ids)

AscendingByName(items) ==
    \A i \in 1..Len(items) - 1 : StringBefore(items[i].row.name, items[i + 1].row.name)

\* C25: for the Colors, Styles, Brands and Collections list endpoints, on an
\* unchanging store and for any fixed filter and limit >= 1, the items of pages 1
\* through pagination.pages, concatenated, are every matching row exactly once, in
\* ascending name order, and every page greater than pagination.pages is empty.
C25_PagesPartitionMatching ==
    [][req'.route \in NameListRoutes
       => LET limit == Default(req'.query.limit, JNum(DefaultLimitNames))
              pages == res'.pagination.pages
              all == ConcatPages(pages, limit, ListMatching)
          IN  /\ ExactlyOnce(all, MatchingIds)
              /\ AscendingByName(all)
              /\ \A p \in 1..MaxPage :
                    PageAsked(p)
                    => IF p > pages THEN res'.data = <<>>
                       ELSE res'.data = ListPage(JStr(NatToString(p)), limit, all).data]_vars

\* page 3 of the three colors, two to a page, is empty: there are 2 pages
C25_Witness ==
    /\ req.route = "GET /colors"
    /\ req.query.page = JStr(<<"3">>) /\ req.query.limit = JStr(<<"2">>)
    /\ req.query.search = Undefined
    /\ res.data = <<>>
    /\ res.pagination.total = 3 /\ res.pagination.pages = 2

-----------------------------------------------------------------------------
(* POST /products and PUT /products/:id with their price fields, one        *)
(* request at a time.  The bodies of the model carry name, slug, sku,       *)
(* price, currency, discountedPrice and pricePerUnit; the prices have at    *)
(* most two decimals.                                                       *)

sUSD == <<"U","S","D">>
sEUR == <<"E","U","R">>

\* parseFloat(v): the argument is converted to a string first
ParseFloatValue(v) == IF v.t = "number" THEN Decimal(v.n, 1) ELSE ParseFloat(v.s)

\* price.toFixed(2) for a price that is not negative
ToFixed2(price) ==
    LET cents == (price.n * 200 + price.d) \div (2 * price.d)
    IN  NatToString(cents \div 100)
        \o <<".", DigitChars[((cents % 100) \div 10) + 1], DigitChars[(cents % 10) + 1]>>

\* `${currency} ${price.toFixed(2)}`
FormattedPrice(currency, price) == currency \o <<" ">> \o ToFixed2(price)

\* a price column that is null
NoPrice == [n |-> 0, d |-> 0, nan |-> FALSE]

\* v ? parseFloat(v) : null, and the formatted column that goes with it
PriceOrNull(v) == IF Falsy(v) THEN NoPrice ELSE ParseFloatValue(v)
FormattedOrNull(currency, v) ==
    IF Falsy(v) THEN JNull ELSE JStr(FormattedPrice(currency, ParseFloatValue(v)))

PricedProduct(name, slug, sku, currency, price, discountedPrice, pricePerUnit) ==
    ProductRow(slug, sku, ParseFloatValue(price), NullId)
    @@ [name |-> name,
        currency |-> currency,
        discountedPrice |-> PriceOrNull(discountedPrice),
        pricePerUnit |-> PriceOrNull(pricePerUnit),
        formattedPrice |-> FormattedPrice(currency, ParseFloatValue(price)),
        formattedDiscountedPrice |-> FormattedOrNull(currency, discountedPrice),
        formattedPricePerUnit |-> FormattedOrNull(currency, pricePerUnit)]

PostProduct(body) ==
    /\ req' = [body |-> body, route |-> "POST /products"]
    /\ IF Falsy(body.name) \/ Falsy(body.slug) \/ Falsy(body.sku) \/ Falsy(body.price)
       THEN res' = Response(400, NoData) /\ UNCHANGED tables
       ELSE IF MethodThrows(body.name) \/ MethodThrows(body.slug) \/ MethodThrows(body.sku)
       THEN res' = Response(500, NoData) /\ UNCHANGED tables
       ELSE LET row == PricedProduct(Trim(body.name.s), Trim(body.slug.s), Trim(body.sku.s),
                                     Default(body.currency, JStr(sUSD)).s, body.price,
                                     body.discountedPrice, body.pricePerUnit)
            IN  IF ProductUniqueViolation(nextId, row.slug, row.sku)
                THEN res' = Response(400, NoData) /\ UNCHANGED tables
                ELSE /\ nextId <= MaxId
                     /\ products' = With(products, nextId, row)
                     /\ nextId' = nextId + 1
                     /\ res' = Response(201, row)
                     /\ UNCHANGED <<colors, styles, brands, collections, variants,
                                    productCollections, variantCollections>>

\* productData of the update: a price that is truthy is parsed and its formatted
\* column is set; every other field of the body goes to the update as it is
PricesUpdated(existing, body) ==
    LET currency == IF Falsy(body.currency) THEN existing.currency ELSE body.currency.s
    IN  [existing EXCEPT
            !.currency = IF body.currency = Undefined THEN @ ELSE body.currency.s,
            !.price = IF body.price = Undefined THEN @ ELSE ParseFloatValue(body.price),
            !.formattedPrice =
                IF Falsy(body.price) THEN @
                ELSE FormattedPrice(currency, ParseFloatValue(body.price)),
            !.discountedPrice =
                IF body.discountedPrice = Undefined THEN @
                ELSE ParseFloatValue(body.discountedPrice),
            !.formattedDiscountedPrice =
                IF Falsy(body.discountedPrice) THEN @
                ELSE FormattedOrNull(currency, body.discountedPrice),
            !.pricePerUnit =
                IF body.pricePerUnit = Undefined THEN @
                ELSE ParseFloatValue(body.pricePerUnit),
            !.formattedPricePerUnit =
                IF Falsy(body.pricePerUnit) THEN @
                ELSE FormattedOrNull(currency, body.pricePerUnit)]

PutProductPrices(id, body) ==
    /\ req' = [id |-> id, body |-> body, route |-> "PUT /products/:id"]
    /\ IF id \notin DOMAIN products
       THEN res' = Response(404, NoData) /\ UNCHANGED tables
       ELSE /\ products' = [products EXCEPT ![id] = PricesUpdated(products[id], body)]
            /\ res' = Response(200, products'[id])
            /\ UNCHANGED <<colors, styles, brands, collections, variants,
                           productCollections, variantCollections, nextId>>

-----------------------------------------------------------------------------
(* Price specification: one product priced USD 10.00; products are created  *)
(* and the first product is updated.                                        *)

sTen == <<"1","0">>

InitPrice ==
    /\ colors = NoRows /\ styles = NoRows /\ brands = NoRows /\ collections = NoRows
    /\ products = With(NoRows, 1, PricedProduct(<<"n">>, <<"p">>, sSku(1), sUSD, JStr(sTen),
                                                Undefined, Undefined))
    /\ variants = NoRows
    /\ productCollections = {} /\ variantCollections = {}
    /\ nextId = MaxId
    /\ req = NoRequest
    /\ res = Response(0, NoData)

PricePostBody(name, slug, sku, price, currency, discountedPrice, pricePerUnit) ==
    [slug |-> slug, sku |-> sku, price |-> price, name |-> name, currency |-> currency,
     discountedPrice |-> discountedPrice, pricePerUnit |-> pricePerUnit]

\* the four required fields with each kind of price
FullPostBodies ==
    {PricePostBody(JStr(<<"n">>), JStr(<<"r">>), JStr(sSku(3)), price, Undefined,
                   Undefined, Undefined) :
        price \in {JStr(sTen), JStr(<<"0">>), JStr(<<"9",".","5">>), JNum(5), JNum(0)}}
    \cup {PricePostBody(JStr(<<"n">>), JStr(<<"r">>), JStr(sSku(3)), JNum(5), JStr(sEUR),
                        JStr(<<"5">>), JStr(<<"2">>))}

\* one required field absent or the empty string
LackingPostBodies ==
    {[PricePostBody(JStr(<<"n">>), JStr(<<"r">>), JStr(sSku(3)), JStr(sTen), Undefined,
                    Undefined, Undefined) EXCEPT ![field] = value] :
        field \in {"name", "slug", "sku", "price"}, value \in {Undefined, JStr(<<>>)}}

\* the slug or the sku of the first product
CollidingPostBodies ==
    {PricePostBody(JStr(<<"n">>), JStr(<<"p">>), JStr(sSku(3)), JStr(sTen), Undefined,
                   Undefined, Undefined),
     PricePostBody(JStr(<<"n">>), JStr(<<"r">>), JStr(sSku(1)), JNum(5), Undefined,
                   Undefined, Undefined)}

PricePutBody(price, currency, discountedPrice, pricePerUnit) ==
    [price |-> price, currency |-> currency, discountedPrice |-> discountedPrice,
     pricePerUnit |-> pricePerUnit]

PricePutBodies ==
    {PricePutBody(Undefined, Undefined, Undefined, Undefined),
     PricePutBody(JStr(<<"5">>), Undefined, Undefined, Undefined),
     PricePutBody(JStr(<<"9",".","5">>), JStr(sEUR), Undefined, Undefined),
     PricePutBody(Undefined, JStr(sEUR), Undefined, Undefined),
     PricePutBody(JNum(0), Undefined, Undefined, Undefined),
     PricePutBody(Undefined, Undefined, JStr(<<"5">>), Undefined),
     PricePutBody(Undefined, Undefined, Undefined, JStr(<<"2">>))}

PostProductRequest ==
    \E body \in FullPostBodies \cup LackingPostBodies \cup CollidingPostBodies :
        PostProduct(body)
PutProductPricesRequest ==
    \E id \in {1, nextId}, body \in PricePutBodies : PutProductPrices(id, body)

NextPrice ==
    \/ PostProductRequest
    \/ PutProductPricesRequest

SpecPrice == InitPrice /\ [][NextPrice]_vars

\* one of name, slug, sku and price is missing from the body or is an empty string
Lacking(body) ==
    \E field \in {"name", "slug", "sku", "price"} : body[field] \in {Undefined, JStr(<<>>)}

\* the price is a number, or a string that denotes one
NumericPrice(body) == body.price.t = "number" \/ ~ParseFloatValue(body.price).nan

\* C26: POST /products responds 400 and inserts nothing exactly when one of name,
\* slug, sku or price is missing from the body or is an empty string; every
\* request that supplies all four, with any numeric price including 0, and does
\* not collide on slug or sku inserts exactly one product and responds 201.
C26_PostProductRequiredFields ==
    [][req'.route = "POST /products"
       => LET body == req'.body
          IN  /\ Lacking(body) => res'.status = 400 /\ UNCHANGED tables
              /\ (/\ ~Lacking(body)
                  /\ NumericPrice(body)
                  /\ ~ProductUniqueViolation(nextId, Trim(body.slug.s), Trim(body.sku.s)))
                 => /\ res'.status = 201
                    /\ DOMAIN products' = DOMAIN products \cup {nextId}
                    /\ nextId \notin DOMAIN products]_vars

\* C27: in every state reachable through POST /products and PUT /products/:id,
\* each product's formattedPrice is the one derived from its current currency and
\* current price (currency, a space, the price to two decimals), and likewise
\* formattedDiscountedPrice and formattedPricePerUnit are derived from the current
\* currency and their current prices whenever those prices are set.
C27_FormattedPricesCurrent ==
    \A p \in DOMAIN products :
        LET row == products[p]
        IN  /\ row.formattedPrice = FormattedPrice(row.currency, row.price)
            /\ row.discountedPrice # NoPrice
               => row.formattedDiscountedPrice
                  = JStr(FormattedPrice(row.currency, row.discountedPrice))
            /\ row.pricePerUnit # NoPrice
               => row.formattedPricePerUnit
                  = JStr(FormattedPrice(row.currency, row.pricePerUnit))

-----------------------------------------------------------------------------
(* New variant specification: two products and no variant.  Variants are    *)
(* created and products are deleted, one request at a time.                 *)

InitNewVariant ==
    /\ colors = NoRows /\ styles = NoRows /\ brands = NoRows /\ collections = NoRows
    /\ products = With(With(NoRows, 1, ProductRow(<<"p">>, sSku(1), 10, NullId)),
                       2, ProductRow(<<"q">>, sSku(2), 10, NullId))
    /\ variants = NoRows
    /\ productCollections = {} /\ variantCollections = {}
    /\ nextId = 3
    /\ req = NoRequest
    /\ res = Response(0, NoData)

NewVariantBody(productId) ==
    [stock |-> Undefined, sku |-> JStr(sSku(nextId)), variantId |-> JStr(sVariantId(nextId)),
     productId |-> productId, colorId |-> AbsentId, styleId |-> AbsentId,
     collectionIds |-> NoCollectionIds, fullVariantName |-> JStr(<<"f">>),
     variantName |-> JStr(<<"v">>)]

RequiredStrings == {"variantId", "sku", "fullVariantName", "variantName"}

\* a product of the store as it was first, an id that names no product, no productId
\* and null; and the bodies with one required string absent or empty
NewVariantBodies ==
    {NewVariantBody(productId) : productId \in {1, 2, nextId, AbsentId, NullId}}
    \cup {[NewVariantBody(productId) EXCEPT ![field] = value] :
             productId \in {1, nextId}, field \in RequiredStrings,
             value \in {Undefined, JStr(<<>>)}}

PostNewVariantRequest == \E body \in NewVariantBodies : PostVariant(body)
DeleteNewVariantProductRequest == \E id \in {1, 2} : DeleteProduct(id)

NextNewVariant ==
    \/ PostNewVariantRequest
    \/ DeleteNewVariantProductRequest

SpecNewVariant == InitNewVariant /\ [][NextNewVariant]_vars

\* one of the five required fields is missing from the body, null or empty
LackingRequired(body) ==
    \/ \E field \in RequiredStrings : body[field] \in {Undefined, JNull, JStr(<<>>)}
    \/ body.productId \in {AbsentId, NullId}

\* C28: a POST /variants that lacks one of variantId, sku, fullVariantName,
\* variantName and productId responds 400 and inserts no variant; one that carries
\* the five and whose productId names no existing product responds 404 and inserts
\* no variant; and, requests running one at a time, every variant inserted by
\* POST /variants references a product that is in the store when it is inserted.
C28_NewVariantNeedsProduct ==
    [][req'.route = "POST /variants"
       => /\ LackingRequired(req'.body) => res'.status = 400 /\ variants' = variants
          /\ ~LackingRequired(req'.body) /\ req'.body.productId \notin DOMAIN products
             => res'.status = 404 /\ variants' = variants
          /\ \A v \in DOMAIN variants' \ DOMAIN variants :
                /\ variants'[v].productId \in DOMAIN products
                /\ variants'[v].productId \in DOMAIN products']_vars

\* a variant of the first product is in the store, the second product has been
\* deleted, and a POST that names the second product has been answered 404
C28_Witness ==
    /\ req.route = "POST /variants"
    /\ req.body.productId = 2 /\ ~LackingRequired(req.body)
    /\ 2 \notin DOMAIN products
    /\ \E v \in DOMAIN variants : variants[v].productId = 1
    /\ res.status = 404

-----------------------------------------------------------------------------
(* The responses of a request, statement by statement.  A request carries   *)
(* the number of responses sent for it; a store call resolves, with its     *)
(* effect on the store, or rejects, and the rejection is caught.  The       *)
(* handlers are PATCH /variants/:id/stock, PUT /products/:id, the 404       *)
(* handler and the global error handler.                                    *)

\* where the handler goes on after a response: the statement that follows, next,
\* when the response is not returned
AfterResponse(next) == next

\* return res.status(...).json(...): the handler ends
AfterReturn(next) == "end"

Goto(p, request, pc) == Proceed(p, [request EXCEPT !.pc = pc])

\* res.status(status).json(...), the handler going on at next
Reply(p, request, status, next) ==
    /\ req' = [req EXCEPT ![p] = [request EXCEPT !.pc = next, !.sent = @ + 1]]
    /\ res' = [res EXCEPT ![p] = Response(status, NoData)]

\* the rejection of a store call is caught
Caught(p, request, code) == Goto(p, [request EXCEPT !.error = code], "catch")

Arrived(route, id, body) ==
    [id |-> id, error |-> "none", body |-> body, route |-> route, pc |-> "findUnique",
     sent |-> 0]

PatchStockArrives(p, id, body) ==
    LET request == Arrived("PATCH /variants/:id/stock", id, body)
    IN  /\ Idle(p)
        /\ UNCHANGED tables
        /\ IF body.stock = Undefined
           THEN Reply(p, request, 400, AfterReturn("findUnique"))
           ELSE Goto(p, request, "findUnique")

PatchStockContinues(p) ==
    LET request == req[p]
    IN  /\ req[p].route = "PATCH /variants/:id/stock"
        /\ \/ /\ request.pc = "findUnique"
              /\ UNCHANGED tables
              /\ \/ IF request.id \notin DOMAIN variants
                    THEN Reply(p, request, 404, AfterReturn("update"))
                    ELSE Goto(p, request, "update")
                 \/ Caught(p, request, "none")
           \/ /\ request.pc = "update"
              /\ \/ /\ request.id \in DOMAIN variants
                    /\ variants' =
                          [variants EXCEPT ![request.id].stock =
                              NewStock(OperationOf(request.body), @,
                                       ParseInt(request.body.stock).n)]
                    /\ Reply(p, request, 200, "end")
                    /\ UNCHANGED <<colors, styles, brands, collections, products,
                                   productCollections, variantCollections, nextId>>
                 \/ Caught(p, request, "none") /\ UNCHANGED tables
           \/ /\ request.pc = "catch"
              /\ UNCHANGED tables
              /\ Reply(p, request, 500, "end")

UpdateProductArrives(p, id, body) ==
    /\ Idle(p)
    /\ UNCHANGED tables
    /\ Goto(p, Arrived("PUT /products/:id", id, body), "findUnique")

UpdateProductContinues(p) ==
    LET request == req[p]
        id == request.id
        ids == request.body.collectionIds.ids
        updated == ProductUpdated(products[id], request.body)
    IN  /\ req[p].route = "PUT /products/:id"
        /\ \/ /\ request.pc = "findUnique"
              /\ UNCHANGED tables
              /\ \/ IF id \notin DOMAIN products
                    THEN Reply(p, request, 404, AfterReturn("update"))
                    ELSE Goto(p, request, "update")
                 \/ Caught(p, request, "none")
           \/ /\ request.pc = "update"
              /\ \/ /\ id \in DOMAIN products
                    /\ ~ProductUniqueViolation(id, updated.slug, updated.sku)
                    /\ products' = [products EXCEPT ![id] = updated]
                    /\ Goto(p, request,
                            IF request.body.collectionIds.given THEN "deleteMany"
                            ELSE "findUpdated")
                    /\ UNCHANGED <<colors, styles, brands, collections, variants,
                                   productCollections, variantCollections, nextId>>
                 \/ /\ id \in DOMAIN products
                    /\ ProductUniqueViolation(id, updated.slug, updated.sku)
                    /\ Caught(p, request, "P2002")
                    /\ UNCHANGED tables
                 \/ Caught(p, request, "none") /\ UNCHANGED tables
           \/ /\ request.pc = "deleteMany"
              /\ \/ /\ productCollections' = productCollections \ ProductJoinRows(id)
                    /\ Goto(p, request, IF Len(ids) > 0 THEN "createMany" ELSE "findUpdated")
                    /\ UNCHANGED <<colors, styles, brands, collections, products, variants,
                                   variantCollections, nextId>>
                 \/ Caught(p, request, "none") /\ UNCHANGED tables
           \/ /\ request.pc = "createMany"
              /\ \/ /\ id \in DOMAIN products
                    /\ Range(ids) \subseteq DOMAIN collections
                    /\ JoinRows(id, ids) \cap productCollections = {}
                    /\ productCollections' = productCollections \cup JoinRows(id, ids)
                    /\ Goto(p, request, "findUpdated")
                    /\ UNCHANGED <<colors, styles, brands, collections, products, variants,
                                   variantCollections, nextId>>
                 \/ /\ JoinRows(id, ids) \cap productCollections # {}
                    /\ Caught(p, request, "P2002")
                    /\ UNCHANGED tables
                 \/ Caught(p, request, "none") /\ UNCHANGED tables
           \/ /\ request.pc = "findUpdated"
              /\ UNCHANGED tables
              /\ \/ Reply(p, request, 200, "end")
                 \/ Caught(p, request, "none")
           \/ /\ request.pc = "catch"
              /\ UNCHANGED tables
              /\ IF request.error = "P2002"
                 THEN Reply(p, request, 400, AfterReturn("catchAll"))
                 ELSE Reply(p, request, 500, "end")
           \/ /\ request.pc = "catchAll"
              /\ UNCHANGED tables
              /\ Reply(p, request, 500, "end")

\* a request that no route matches reaches the 404 handler
NoRouteArrives(p, url) ==
    /\ Idle(p)
    /\ UNCHANGED tables
    /\ Reply(p, Arrived(url, NullId, Undefined), 404, "end")

\* express.json rejects the body and passes the error on
UnparsedBodyArrives(p, route) ==
    /\ Idle(p)
    /\ UNCHANGED tables
    /\ Goto(p, [Arrived(route, NullId, Undefined) EXCEPT !.error = BodyParseError.code],
            "errorHandler")

ErrorHandlerContinues(p) ==
    /\ req[p].route # "none"
    /\ req[p].pc = "errorHandler"
    /\ UNCHANGED tables
    /\ Reply(p, req[p], GlobalErrorHandler([code |-> req[p].error]).status, "end")

-----------------------------------------------------------------------------
(* Response specification: the store of the Write race specification; each  *)
(* of two processes handles one request.  A continuation whose store call   *)
(* has settled is run: the steps after the arrival are weakly fair.         *)

ResponseIds == {1, 3}

PatchStockArrivesStep ==
    \E p \in Procs, id \in ResponseIds,
       body \in {[operation |-> JStr(sAdd), stock |-> JNum(1)],
                 [operation |-> JStr(sAdd), stock |-> Undefined]} :
        PatchStockArrives(p, id, body)
PatchStockContinuesStep == \E p \in Procs : PatchStockContinues(p)

UpdateProductArrivesStep ==
    \E p \in Procs, id \in ResponseIds,
       body \in {ProductPutBody(Undefined, Undefined, NoCollectionIds),
                 ProductPutBody(Undefined, JStr(sSku(2)), NoCollectionIds),
                 ProductPutBody(Undefined, Undefined, CollectionIds(<<1>>)),
                 ProductPutBody(Undefined, Undefined, CollectionIds(<<3>>)),
                 ProductPutBody(Undefined, Undefined, CollectionIds(<<>>))} :
        UpdateProductArrives(p, id, body)
UpdateProductContinuesStep == \E p \in Procs : UpdateProductContinues(p)

NoRouteArrivesStep == \E p \in Procs : NoRouteArrives(p, "*")
UnparsedBodyArrivesStep == \E p \in Procs : UnparsedBodyArrives(p, "POST /colors")
ErrorHandlerContinuesStep == \E p \in Procs : ErrorHandlerContinues(p)

NextResponse ==
    \/ PatchStockArrivesStep
    \/ PatchStockContinuesStep
    \/ UpdateProductArrivesStep
    \/ UpdateProductContinuesStep
    \/ NoRouteArrivesStep
    \/ UnparsedBodyArrivesStep
    \/ ErrorHandlerContinuesStep

Continues(p) ==
    \/ PatchStockContinues(p)
    \/ UpdateProductContinues(p)
    \/ ErrorHandlerContinues(p)

SpecResponse ==
    /\ InitWriteRace
    /\ [][NextResponse]_vars
    /\ \A p \in Procs : WF_vars(Continues(p))

Answered(p) == ~Idle(p) /\ req[p].pc = "end" /\ req[p].sent = 1

\* C29: every request receives exactly one response: on every path through a
\* handler (validation failure, not found, conflict, store error, success) one and
\* only one response is sent, and once each store call of the handler has resolved
\* or rejected the request does not remain unanswered.
C29_ExactlyOneResponse ==
    /\ [](\A p \in Procs : ~Idle(p) => req[p].sent <= 1 /\ (req[p].pc = "end" => req[p].sent = 1))
    /\ \A p \in Procs : ~Idle(p) ~> Answered(p)

\* a PUT whose createMany was rejected has been answered 500, once, and a stock
\* PATCH without stock 400, once
C29_Witness ==
    /\ Answered(1) /\ Answered(2)
    /\ req[1].route = "PUT /products/:id"
    /\ req[1].body.collectionIds = CollectionIds(<<3>>)
    /\ productCollections = {}
    /\ res[1].status = 500
    /\ req[2].route = "PATCH /variants/:id/stock"
    /\ res[2].status = 400

-----------------------------------------------------------------------------
(* The store clients of the process and its shutdown.  Here req holds the   *)
(* state of the process: where it is (running, disconnecting after a        *)
(* signal, exited), the signal received, and for each module the state of   *)
(* the PrismaClient it created.  A client connects at its first query.      *)

RouteModules == {"products", "variants", "colors", "styles", "collections", "brands"}
Modules == {"server"} \cup RouteModules
Signals == {"SIGINT", "SIGTERM"}

\* const prisma = new PrismaClient(), in the server module and in each route module
InitShutdown ==
    /\ colors = NoRows /\ styles = NoRows /\ brands = NoRows /\ collections = NoRows
    /\ products = NoRows /\ variants = NoRows
    /\ productCollections = {} /\ variantCollections = {}
    /\ nextId = 1
    /\ req = [route |-> "none", pc |-> "running", signal |-> "none",
              clients |-> [m \in Modules |-> "created"]]
    /\ res = Response(0, NoData)

\* a request is handled by a route module, whose handlers query through the
\* module's own client
Query(m) ==
    /\ req.pc \in {"running", "disconnecting"}
    /\ req' = [req EXCEPT !.route = m, !.clients[m] = "connected"]
    /\ res' = Response(200, NoData)
    /\ UNCHANGED tables

\* process.on(signal, ...): the handler starts
Signal(signal) ==
    /\ req.pc = "running"
    /\ req' = [req EXCEPT !.pc = "disconnecting", !.signal = signal]
    /\ UNCHANGED <<res, tables>>

\* await prisma.$disconnect() on the server module's client
Disconnect ==
    /\ req.pc = "disconnecting"
    /\ req' = [req EXCEPT !.pc = "exiting", !.clients["server"] = "disconnected"]
    /\ UNCHANGED <<res, tables>>

\* process.exit(0)
Exit ==
    /\ req.pc = "exiting"
    /\ req' = [req EXCEPT !.pc = "exited"]
    /\ UNCHANGED <<res, tables>>

QueryRequest == \E m \in RouteModules : Query(m)
SignalReceived == \E signal \in Signals : Signal(signal)

NextShutdown ==
    \/ QueryRequest
    \/ SignalReceived
    \/ Disconnect
    \/ Exit

SpecShutdown == InitShutdown /\ [][NextShutdown]_vars

\* C30: on SIGINT or SIGTERM, every store client the process has created (the
\* server module's and the one created by each of the six route modules) is
\* disconnected before the process exits: none is still connected at the exit.
C30_ClientsDisconnectedAtExit ==
    req.pc = "exited" => \A m \in Modules : req.clients[m] # "connected"

=============================================================================
